---- MODULE Spec2Model ----
(***************************************************************************)
(* Quote pipeline of threads_dashboard_starter: the multi-stage validator  *)
(* (backend/quote_validator.py), the refine / harvest / deep-scan          *)
(* operations (backend/agent.py, backend/smart_quote_extractor.py,         *)
(* backend/gemini_extractor.py) and the publish handler (app.py) with the  *)
(* quotes table (backend/database.py).                                     *)
(*                                                                         *)
(* Text.  A Python str is modelled exactly, in run-length encoding: a      *)
(* sequence of runs [c |-> character, n |-> repetitions >= 1] in which     *)
(* neighbouring runs hold different characters.  Characters are named:     *)
(*   "b" a Cyrillic letter that occurs in no pattern of the code,          *)
(*   "i" "t" "l" "d" "e" "s" "soft" the letters и т л д е с ь, which spell *)
(*   verb endings of the validator, the term "лид" and the verb "есть" of  *)
(*   the heuristic extraction,  "7" a digit,                               *)
(*   "sp" space, "nl" newline, "dot" . "comma" , "excl" ! "qm" ?           *)
(*   "ell" the one-character ellipsis, "dq" and "sq" the straight quotes,  *)
(*   "colon" : "dash" the em dash, "star" * and "copy" the sign (c).       *)
(* Every string operation below is computed on the runs as Python          *)
(* computes it on the characters.                                          *)
(*                                                                         *)
(* Scores.  A float score s is the integer s * ScoreOne, and a score read  *)
(* from a record's meta is the integer s * 100; the values the model draws *)
(* are decimal fractions on which the products are exact.                  *)
(*                                                                         *)
(* A dict is a function on its keys; {**a, **b} is b @@ a.                 *)
(* ValidationResult.message and .details only feed the display and are     *)
(* not modelled.                                                           *)
(***************************************************************************)
EXTENDS Integers, Sequences, FiniteSets, TLC

(***************************************************************************)
(* Bounds of the model                                                     *)
(***************************************************************************)
\* most segments of SegmentLibrary an input text of the validator is built from
MaxSegs == 3

\* the longest list of quotes in a file
MaxQuotes == 2

\* the longest list of objects in an answer of an LLM
MaxReply == 2

\* the longest list of text chunks handed to the smart extractor
MaxChunks == 2

\* the most pages of a PDF
MaxPages == 2

\* the most quotes the page shows
MaxShown == 2

\* the most posts Threads accepts
MaxPosts == 2

(***************************************************************************)
(* Python str on runs                                                      *)
(***************************************************************************)
Run(c, n) == [c |-> c, n |-> n]

WhiteSpace == {"sp", "nl"}

\* the characters \w matches among the model's characters
WordChars == {"b", "i", "t", "l", "d", "e", "s", "soft", "7"}

Last(s) == s[Len(s)]

Front(s) == SubSeq(s, 1, Len(s) - 1)

\* a + b
Cat(a, b) ==
  IF a = <<>> THEN b
  ELSE IF b = <<>> THEN a
  ELSE IF Last(a).c = Head(b).c
       THEN Front(a) \o <<Run(Head(b).c, Last(a).n + Head(b).n)>> \o Tail(b)
       ELSE a \o b

RECURSIVE StrLen(_)
\* len(s)
StrLen(s) == IF s = <<>> THEN 0 ELSE Head(s).n + StrLen(Tail(s))

RECURSIVE LStrip(_)
LStrip(s) ==
  IF s = <<>> THEN <<>>
  ELSE IF Head(s).c \in WhiteSpace THEN LStrip(Tail(s)) ELSE s

RECURSIVE RStrip(_)
RStrip(s) ==
  IF s = <<>> THEN <<>>
  ELSE IF Last(s).c \in WhiteSpace THEN RStrip(Front(s)) ELSE s

\* s.strip()
Strip(s) == LStrip(RStrip(s))

\* s.isspace()
IsSpace(s) == s # <<>> /\ \A j \in 1..Len(s) : s[j].c \in WhiteSpace

RECURSIVE CollapseWhitespace(_)
\* re.sub(r'\s+', ' ', s)
CollapseWhitespace(s) ==
  IF s = <<>> THEN <<>>
  ELSE IF Head(s).c \in WhiteSpace
       THEN <<Run("sp", 1)>> \o CollapseWhitespace(LStrip(s))
       ELSE <<Head(s)>> \o CollapseWhitespace(Tail(s))

\* the runs of s before its first whitespace run
FirstWord(s) ==
  LET ws == {j \in 1..Len(s) : s[j].c \in WhiteSpace}
      k  == IF ws = {} THEN Len(s) + 1
            ELSE CHOOSE j \in ws : \A m \in ws : j <= m
  IN  SubSeq(s, 1, k - 1)

RECURSIVE SplitWords(_)
\* s.split()
SplitWords(s) ==
  LET t == LStrip(s)
  IN  IF t = <<>> THEN <<>>
      ELSE <<FirstWord(t)>>
             \o SplitWords(SubSeq(t, Len(FirstWord(t)) + 1, Len(t)))

SentenceEnd == {"dot", "excl", "qm"}

RECURSIVE SplitSentencesFrom(_, _)
\* the pieces of re.split(r'(?<=[.!?])\s+', ...) still to come, acc being the
\* piece read so far: a whitespace run splits only right after . ! or ?
SplitSentencesFrom(s, acc) ==
  IF s = <<>> THEN <<acc>>
  ELSE IF Head(s).c \in WhiteSpace /\ acc # <<>> /\ Last(acc).c \in SentenceEnd
       THEN <<acc>> \o SplitSentencesFrom(LStrip(s), <<>>)
       ELSE SplitSentencesFrom(Tail(s), Append(acc, Head(s)))

\* re.split(r'(?<=[.!?])\s+', s)
SplitSentences(s) == SplitSentencesFrom(s, <<>>)

\* s.endswith(chars)
EndsWithAny(s, chars) == s # <<>> /\ Last(s).c \in chars

Sp == <<Run("sp", 1)>>

RECURSIVE Join(_)
\* " ".join(words)
Join(words) ==
  IF words = <<>> THEN <<>>
  ELSE IF Len(words) = 1 THEN Head(words)
  ELSE Cat(Cat(Head(words), Sp), Join(Tail(words)))

\* w.isdigit()
IsDigit(w) == w # <<>> /\ \A j \in 1..Len(w) : w[j].c = "7"

RECURSIVE Suffix(_, _)
\* the last k characters of s, one by one (all of s when it is shorter)
Suffix(s, k) ==
  IF k = 0 \/ s = <<>> THEN <<>>
  ELSE Append(Suffix(IF Last(s).n = 1 THEN Front(s)
                     ELSE Front(s) \o <<Run(Last(s).c, Last(s).n - 1)>>,
                     k - 1),
              Last(s).c)

\* run j of s ends a maximal sequence of word characters (a \b follows it)
EndsRegexWord(s, j) ==
  /\ s[j].c \in WordChars
  /\ j < Len(s) => s[j + 1].c \notin WordChars

\* the maximal sequence of word characters that ends with run j of s
RegexWordAt(s, j) ==
  LET starts == {k \in 1..j : \A m \in k..j : s[m].c \in WordChars}
  IN  SubSeq(s, CHOOSE k \in starts : \A m \in starts : k <= m, j)

\* the maximal sequences of word characters of s (what \b...\b can frame)
RegexWords(s) ==
  {RegexWordAt(s, j) : j \in {k \in 1..Len(s) : EndsRegexWord(s, k)}}

(***************************************************************************)
(* dict helpers                                                            *)
(***************************************************************************)
\* d.get(k, default)
Get(d, k, default) == IF k \in DOMAIN d THEN d[k] ELSE default

\* the dict {} (a function with no key)
EmptyDict == [k \in {} |-> 0]

\* Python's None
None == [none |-> TRUE]

(***************************************************************************)
(* QuoteValidator (backend/quote_validator.py)                             *)
(***************************************************************************)
THREADS_MAX_LENGTH == 500

MIN_MEANINGFUL_LENGTH == 30

\* OPTIMAL_LENGTH_RANGE = (100, 400)
OPTIMAL_MIN == 100

OPTIMAL_MAX == 400

\* the float 1.0 of ValidationResult.score
ScoreOne == 100000

\* a * f on floats, the factor f given in hundredths
Mul(a, f) == (a * f) \div 100

\* ValidationStage, in the order validate_full_pipeline runs the stages
StageOrder == <<"basic", "meaningfulness", "threads_optimization", "final_quality">>

\* ValidationResult(stage, status, message, quote, score, details)
ValidationResult(stage, status, quote, score) ==
  [stage |-> stage, status |-> status, quote |-> quote, score |-> score]

\* any(re.search(p, quote, re.IGNORECASE) for p in FORBIDDEN_PATTERNS): of the
\* twelve patterns only the copyright sign can be spelled with the model's
\* characters
HasForbiddenPattern(quote) == \E j \in 1..Len(quote) : quote[j].c = "copy"

\* BasicScore without the penalty for a text of more than 500 characters
BasicScore_NoPenalty(length) == ScoreOne

\* score of _validate_basic: 1.0, and "score *= 0.5" for a text that is too long
BasicScore(length) ==
  IF length > THREADS_MAX_LENGTH THEN Mul(ScoreOne, 50) ELSE ScoreOne

\* QuoteValidator._validate_basic
validate_basic(quote) ==
  LET length == StrLen(quote)
  IN  IF length < MIN_MEANINGFUL_LENGTH
      THEN ValidationResult("basic", "failed", quote, 0)
      ELSE IF HasForbiddenPattern(quote)
      THEN ValidationResult("basic", "failed", quote, 0)
      ELSE IF quote = <<>> \/ IsSpace(quote)
      THEN ValidationResult("basic", "failed", quote, 0)
      ELSE ValidationResult("basic", "passed",
                            Strip(CollapseWhitespace(quote)), BasicScore(length))

\* quote.endswith(('.', '!', '?', '…', '"', "'"))
ProperEndings == {"dot", "excl", "qm", "ell", "dq", "sq"}

\* r"\.\.\.$" at the position s ends (the caller handles the final newline)
EndsWithThreeDots(s) == s # <<>> /\ Last(s).c = "dot" /\ Last(s).n >= 3

\* any(re.search(p, quote) for p in INCOMPLETE_MARKERS).  $ matches at the
\* end and before a final newline; ",\s*$" and its like skip any whitespace
HasIncompleteMarker(quote) ==
  \/ EndsWithThreeDots(quote)
  \/ /\ quote # <<>>
     /\ Last(quote) = Run("nl", 1)
     /\ EndsWithThreeDots(Front(quote))
  \/ EndsWithAny(RStrip(quote), {"comma", "colon", "dash", "star"})

\* the endings of verb_patterns: ать ить еть уть ют ит ет ут ят ат, and
\* ал ил ел ала ила ела али или ели ("a" "u" "yu" "ya" name а у ю я, which
\* no text of the model holds)
VerbEndings ==
  {<<"a", "t", "soft">>, <<"i", "t", "soft">>, <<"e", "t", "soft">>,
   <<"u", "t", "soft">>, <<"yu", "t">>, <<"i", "t">>, <<"e", "t">>,
   <<"u", "t">>, <<"ya", "t">>, <<"a", "t">>,
   <<"a", "l">>, <<"i", "l">>, <<"e", "l">>, <<"a", "l", "a">>,
   <<"i", "l", "a">>, <<"e", "l", "a">>, <<"a", "l", "i">>,
   <<"i", "l", "i">>, <<"e", "l", "i">>}

\* any(re.search(p, quote, re.IGNORECASE) for p in verb_patterns): each
\* pattern is \b\w+(ending)\b, a whole run of word characters that ends with
\* one of the endings and has at least one character before it
HasVerbs(quote) ==
  \E w \in RegexWords(quote), ending \in VerbEndings :
     StrLen(w) > Len(ending) /\ Suffix(w, Len(ending)) = ending

\* [w for w in words if len(w) > 3 and not w.isdigit()]
MeaningfulWords(words) ==
  SelectSeq(words, LAMBDA w : StrLen(w) > 3 /\ ~IsDigit(w))

\* EndingScore without the penalty for a text that has no verb
EndingScore_NoVerbPenalty(quote) ==
  LET s1 == IF EndsWithAny(quote, ProperEndings)
            THEN ScoreOne ELSE Mul(ScoreOne, 30)
  IN  IF HasIncompleteMarker(quote) THEN Mul(s1, 20) ELSE s1

\* the score of _validate_meaningfulness before the word count is looked at
EndingScore(quote) ==
  LET s1 == IF EndsWithAny(quote, ProperEndings)
            THEN ScoreOne ELSE Mul(ScoreOne, 30)
      s2 == IF HasIncompleteMarker(quote) THEN Mul(s1, 20) ELSE s1
  IN  IF HasVerbs(quote) THEN s2 ELSE Mul(s2, 70)

\* QuoteValidator._validate_meaningfulness
validate_meaningfulness(quote, quote_data) ==
  LET words == SplitWords(quote)
      word_count == Len(words)
      \* meaningful_ratio < 0.5
      low_ratio == 2 * Len(MeaningfulWords(words)) < word_count
      score == IF low_ratio THEN Mul(EndingScore(quote), 50)
               ELSE EndingScore(quote)
  IN  IF word_count < 5
      THEN ValidationResult("meaningfulness", "failed", quote, 0)
      ELSE IF score < 50000
      THEN ValidationResult("meaningfulness", "failed", quote, score)
      ELSE IF score < 80000
      THEN ValidationResult("meaningfulness", "warning", quote, score)
      ELSE ValidationResult("meaningfulness", "passed", quote, score)

RECURSIVE TakeWhileFits(_, _, _)
\* the two truncation loops of _optimize_for_threads: append piece + " " while
\* len(acc) + len(piece) + 1 <= limit, and stop at the first piece that does
\* not fit
TakeWhileFits(pieces, acc, limit) ==
  IF pieces = <<>> THEN acc
  ELSE IF StrLen(acc) + StrLen(Head(pieces)) + 1 <= limit
       THEN TakeWhileFits(Tail(pieces),
                          Cat(Cat(acc, Head(pieces)), <<Run("sp", 1)>>), limit)
       ELSE acc

\* TruncateByWords without the three characters kept free for "..."
TruncateByWords_NoReserve(quote) ==
  Cat(Strip(TakeWhileFits(SplitWords(quote), <<>>, THREADS_MAX_LENGTH)),
      <<Run("dot", 3)>>)

\* the cut by words, with "..." appended
TruncateByWords(quote) ==
  Cat(Strip(TakeWhileFits(SplitWords(quote), <<>>, THREADS_MAX_LENGTH - 3)),
      <<Run("dot", 3)>>)

\* the cut by sentences, and by words when no sentence of 30 characters fits
Truncate(quote) ==
  LET by_sentence ==
        Strip(TakeWhileFits(SplitSentences(quote), <<>>, THREADS_MAX_LENGTH))
  IN  IF StrLen(by_sentence) < MIN_MEANINGFUL_LENGTH
      THEN TruncateByWords(quote)
      ELSE by_sentence

\* optimized_quote of _optimize_for_threads
OptimizedQuote(quote) ==
  IF StrLen(quote) > THREADS_MAX_LENGTH THEN Truncate(quote) ELSE quote

\* QuoteValidator._optimize_for_threads
optimize_for_threads(quote, quote_data) ==
  LET length == StrLen(quote)
      optimized_quote == OptimizedQuote(quote)
      new_length == StrLen(optimized_quote)
      s1 == IF length > THREADS_MAX_LENGTH THEN 80000 ELSE ScoreOne
      s2 == IF OPTIMAL_MIN <= new_length /\ new_length <= OPTIMAL_MAX THEN s1
            ELSE IF new_length < OPTIMAL_MIN THEN Mul(s1, 90)
            ELSE Mul(s1, 95)
      long_words == SelectSeq(SplitWords(optimized_quote),
                              LAMBDA w : StrLen(w) > 20)
      score == IF long_words # <<>> THEN Mul(s2, 90) ELSE s2
  IN  ValidationResult("threads_optimization",
                       IF length # new_length THEN "optimized" ELSE "passed",
                       optimized_quote, score)

\* the score of _validate_final_quality
FinalScore(meta) ==
  LET s1 == IF "confidence" \in DOMAIN meta
            THEN Mul(ScoreOne, meta["confidence"]) ELSE ScoreOne
      s2 == IF "practical_value" \in DOMAIN meta
            THEN Mul(s1, 50 + Mul(meta["practical_value"], 50)) ELSE s1
  IN  IF "completeness" \in DOMAIN meta
      THEN Mul(s2, 70 + Mul(meta["completeness"], 30)) ELSE s2

\* QuoteValidator._validate_final_quality
validate_final_quality(quote, quote_data) ==
  LET score == FinalScore(Get(quote_data, "meta", EmptyDict))
  IN  IF score < 50000
      THEN ValidationResult("final_quality", "failed", quote, score)
      ELSE IF score < 70000
      THEN ValidationResult("final_quality", "warning", quote, score)
      ELSE ValidationResult("final_quality", "passed", quote, score)

\* the state of a validate_full_pipeline call before its first stage
StartPipeline(qd) ==
  [pc |-> "basic", quote_text |-> Strip(Get(qd, "quote", <<>>)),
   results |-> <<>>, passed |-> FALSE]

\* the stage method validate_full_pipeline calls at pc
RunStage(stage, text, qd) ==
  CASE stage = "basic" -> validate_basic(text)
    [] stage = "meaningfulness" -> validate_meaningfulness(text, qd)
    [] stage = "threads_optimization" -> optimize_for_threads(text, qd)
    [] stage = "final_quality" -> validate_final_quality(text, qd)

\* the two "if result.status == ValidationStatus.FAILED: return False, results"
StopsPipeline(result) ==
  result.stage \in {"basic", "meaningfulness"} /\ result.status = "failed"

\* AllPassed with WARNING left out of the passing statuses
AllPassed_NoWarning(res) ==
  \A j \in 1..Len(res) : res[j].status \in {"passed", "optimized"}

\* passed = all(r.status in [PASSED, OPTIMIZED, WARNING] for r in results.values())
AllPassed(res) ==
  \A j \in 1..Len(res) : res[j].status \in {"passed", "optimized", "warning"}

NextStage(stage) ==
  CASE stage = "basic" -> "meaningfulness"
    [] stage = "meaningfulness" -> "threads_optimization"
    [] stage = "threads_optimization" -> "final_quality"

\* Advance without the early return after a failed stage
Advance_NoEarlyReturn(st, result) ==
  LET res == Append(st.results, result)
  IN  IF st.pc = "final_quality"
      THEN [pc |-> "return", quote_text |-> st.quote_text,
            results |-> res, passed |-> AllPassed(res)]
      ELSE [pc |-> NextStage(st.pc), quote_text |-> result.quote,
            results |-> res, passed |-> FALSE]

\* what validate_full_pipeline does with the result of the stage at st.pc:
\* record it, and stop, finish or hand its quote to the next stage
Advance(st, result) ==
  LET res == Append(st.results, result)
  IN  IF StopsPipeline(result)
      THEN [pc |-> "return", quote_text |-> st.quote_text,
            results |-> res, passed |-> FALSE]
      ELSE IF st.pc = "final_quality"
      THEN [pc |-> "return", quote_text |-> st.quote_text,
            results |-> res, passed |-> AllPassed(res)]
      ELSE [pc |-> NextStage(st.pc), quote_text |-> result.quote,
            results |-> res, passed |-> FALSE]

\* one stage of validate_full_pipeline
PipelineStep(st, qd) == Advance(st, RunStage(st.pc, st.quote_text, qd))

RECURSIVE RunPipeline(_, _)
RunPipeline(st, qd) ==
  IF st.pc = "return" THEN st ELSE RunPipeline(PipelineStep(st, qd), qd)

\* "return passed, results" of a pipeline that has come to its end
Verdict(st) == [passed |-> st.passed, results |-> st.results]

\* QuoteValidator.validate_full_pipeline: (passed, results), the results in
\* the order the dict received them
validate_full_pipeline(qd) == Verdict(RunPipeline(StartPipeline(qd), qd))

\* results[stage]
ResultOf(res, stage) ==
  res[CHOOSE j \in 1..Len(res) : res[j].stage = stage]

\* the "validation_stages" dict of get_validated_quote
ValidationStages(res) ==
  [stage \in {res[j].stage : j \in 1..Len(res)} |->
     [status |-> ResultOf(res, stage).status,
      score |-> ResultOf(res, stage).score]]

\* UpdatedQuoteData with the fields of the input winning over the new ones
UpdatedQuoteData_InputWins(qd, res) ==
  LET optimized_quote == ResultOf(res, "threads_optimization").quote
  IN  qd @@ [quote |-> optimized_quote,
             translated |-> optimized_quote,
             meta |-> Get(qd, "meta", EmptyDict)
                        @@ [validated |-> TRUE,
                            validation_score |->
                              ResultOf(res, "final_quality").score,
                            threads_ready |-> TRUE,
                            final_length |-> StrLen(optimized_quote),
                            validation_stages |-> ValidationStages(res)]]

\* updated_quote_data of get_validated_quote
UpdatedQuoteData(qd, res) ==
  LET optimized_quote == ResultOf(res, "threads_optimization").quote
  IN  [quote |-> optimized_quote,
       translated |-> optimized_quote,
       meta |-> [validated |-> TRUE,
                 validation_score |-> ResultOf(res, "final_quality").score,
                 threads_ready |-> TRUE,
                 final_length |-> StrLen(optimized_quote),
                 validation_stages |-> ValidationStages(res)]
               @@ Get(qd, "meta", EmptyDict)]
      @@ qd

\* ReturnValue with a record built from nothing instead of from quote_data
ReturnValue_OnlyNew(qd, is_passed, res) ==
  IF ~is_passed THEN None ELSE UpdatedQuoteData(EmptyDict, res)

\* what get_validated_quote returns once validate_full_pipeline has returned
ReturnValue(qd, is_passed, res) ==
  IF ~is_passed THEN None ELSE UpdatedQuoteData(qd, res)

\* passed, results = self.validate_full_pipeline(quote_data), and the rest
ReturnOf(qd, verdict) == ReturnValue(qd, verdict.passed, verdict.results)

\* QuoteValidator.get_validated_quote
get_validated_quote(qd) == ReturnOf(qd, validate_full_pipeline(qd))

(***************************************************************************)
(* agent.py: polishing the quotes of a file                                *)
(*                                                                         *)
(* A JSON file holds a payload: a dict, a list or another value.  Reading  *)
(* back what json.dump wrote gives the same value for the dicts, lists,    *)
(* strings, numbers and booleans the records are made of.                  *)
(***************************************************************************)
Missing == [missing |-> TRUE]

DictPayload(d) == [kind |-> "dict", value |-> d]

ListPayload(l) == [kind |-> "list", value |-> l]

\* _load_quotes
load_quotes(payload) ==
  IF payload.kind = "dict" THEN Get(payload.value, "quotes", <<>>)
  ELSE IF payload.kind = "list" THEN payload.value
  ELSE <<>>

\* the payload _save_quotes writes
save_quotes(book, quotes) == DictPayload([book |-> book, quotes |-> quotes])

\* item.get(k1) or item.get(k2) or ... or "": the first text that is not empty
FirstText(item, keys) ==
  LET found == {j \in 1..Len(keys) : Get(item, keys[j], <<>>) # <<>>}
  IN  IF found = {} THEN <<>>
      ELSE item[keys[CHOOSE j \in found : \A m \in found : j <= m]]

\* the text _local_polish hands to the validator
CleanText(item) ==
  Strip(CollapseWhitespace(
    Strip(FirstText(item, <<"quote", "translated", "original">>))))

\* what _local_polish makes of the validator's answer
Polished(validated) ==
  IF validated = None THEN None
  ELSE [engaging |-> TRUE,
        category |-> Get(validated, "category", ""),
        style |-> IF Get(validated, "style", "") = "" THEN "insight"
                  ELSE validated.style,
        meta |-> [length |-> StrLen(validated.quote)] @@ validated.meta]
         @@ validated

\* _local_polish without the validator: the cleaned text is taken as it is
local_polish_Unvalidated(item) ==
  Polished([quote |-> CleanText(item),
            meta |-> Get(item, "meta", EmptyDict)] @@ item)

\* _refine_batch._local_polish
local_polish(item) ==
  Polished(get_validated_quote([quote |-> CleanText(item)] @@ item))

\* one turn of the loops over _local_polish: what it rejects is dropped, and
\* where the code asks "validated and validated.get('quote')" an empty quote
\* as well
KeepPolished(polished, rest, require_quote) ==
  IF polished = None THEN rest
  ELSE IF require_quote /\ polished.quote = <<>> THEN rest
  ELSE <<polished>> \o rest

RECURSIVE PolishAll(_, _)
\* [p for p in [_local_polish(it) for it in items] if p is kept]
PolishAll(items, require_quote) ==
  IF items = <<>> THEN <<>>
  ELSE KeepPolished(local_polish(Head(items)),
                    PolishAll(Tail(items), require_quote), require_quote)

\* it.get("quote") or it.get("original")
HasQuoteOrOriginal(it) ==
  Get(it, "quote", <<>>) # <<>> \/ Get(it, "original", <<>>) # <<>>

\* [it for it in quotes if (it.get("quote") or it.get("original"))]
LocalCandidates(quotes) == SelectSeq(quotes, HasQuoteOrOriginal)

Min(a, b) == IF a <= b THEN a ELSE b

\* merged.get("quote")
HasQuote(it) == Get(it, "quote", <<>>) # <<>>

\* claude_refine_quotes when Claude answered with the objects of reply (no
\* answer at all gives what an empty list gives: the quotes as they came)
claude_refine_quotes(quotes, reply) ==
  LET merged == [j \in 1..Min(Len(reply), Len(quotes)) |-> reply[j] @@ quotes[j]]
      result == SelectSeq(merged, HasQuote)
  IN  IF result = <<>> THEN quotes ELSE result

\* the objects _refine_batch hands to _local_polish when OpenAI answered with
\* the objects of reply: {**base, **obj}, base empty past the end of quotes
OpenAIMerged(quotes, reply) ==
  [j \in 1..Len(reply) |->
     reply[j] @@ (IF j <= Len(quotes) THEN quotes[j] ELSE EmptyDict)]

\* the branches of _refine_batch whose loop keeps only a non-empty quote
RequiresQuote(taken) == taken \in {"claude_ok", "openai_ok"}

\* [it for it in refined if it.get("engaging") is True]
IsEngaging(it) == Get(it, "engaging", FALSE) = TRUE

RECURSIVE DedupFrom(_, _, _)
\* the dedup loop of refine_quotes: seen and deduped as they are when items
\* are still to come
DedupFrom(items, seen, deduped) ==
  IF items = <<>> THEN deduped
  ELSE LET key == Strip(Get(Head(items), "quote", <<>>))
       IN  IF key # <<>> /\ key \notin seen
           THEN DedupFrom(Tail(items), seen \cup {key},
                          Append(deduped, Head(items)))
           ELSE DedupFrom(Tail(items), seen, deduped)

\* refine_quotes' dedup with the identity in its place
Dedup_KeepAll(items) == items

\* the dedup of refine_quotes: by stripped quote text, the first one stays
Dedup(items) == DedupFrom(items, {}, <<>>)

\* quotes[i : i + batch_size]
Slice(quotes, i, size) == SubSeq(quotes, i + 1, Min(i + size, Len(quotes)))

(***************************************************************************)
(* More of Python str on runs                                              *)
(***************************************************************************)
RECURSIVE Take(_, _)
\* s[:n]
Take(s, n) ==
  IF n <= 0 \/ s = <<>> THEN <<>>
  ELSE IF Head(s).n <= n THEN <<Head(s)>> \o Take(Tail(s), n - Head(s).n)
  ELSE <<Run(Head(s).c, n)>>

\* items[:n]
FirstN(items, n) == SubSeq(items, 1, Min(n, Len(items)))

\* the text made of the characters cs
Spell(cs) == [j \in 1..Len(cs) |-> Run(cs[j], 1)]

\* t in s, for a text t in which no character stands twice in a row
Contains(s, t) ==
  \E j \in 1..(Len(s) - Len(t) + 1) :
     \A k \in 1..Len(t) :
        /\ s[j + k - 1].c = t[k].c
        /\ (1 < k /\ k < Len(t)) => s[j + k - 1].n = 1

RECURSIVE KeepChars(_, _)
\* re.sub(r'[^...]', '', s): only the characters of allowed stay
KeepChars(s, allowed) ==
  IF s = <<>> THEN <<>>
  ELSE IF Head(s).c \in allowed
       THEN Cat(<<Head(s)>>, KeepChars(Tail(s), allowed))
       ELSE KeepChars(Tail(s), allowed)

\* the last run of the white space around run j that is a newline: where a
\* match of \n\s*\n that starts in run j ends
BreakEnd(s, j) ==
  LET ends == {m \in j..Len(s) :
                 /\ s[m].c = "nl"
                 /\ \A k \in j..m : s[k].c \in WhiteSpace}
  IN  CHOOSE m \in ends : \A k \in ends : k <= m

\* a match of \n\s*\n starts in run j
IsBreak(s, j) ==
  /\ s[j].c = "nl"
  /\ s[j].n >= 2 \/ BreakEnd(s, j) > j

RECURSIVE SplitParagraphs(_)
\* re.split(r'\n\s*\n', s)
SplitParagraphs(s) ==
  LET breaks == {j \in 1..Len(s) : IsBreak(s, j)}
  IN  IF breaks = {} THEN <<s>>
      ELSE LET j == CHOOSE k \in breaks : \A m \in breaks : k <= m
           IN  <<SubSeq(s, 1, j - 1)>>
                 \o SplitParagraphs(SubSeq(s, BreakEnd(s, j) + 1, Len(s)))

RECURSIVE SplitBlankLines(_)
\* re.split(r"\n{2,}", s)
SplitBlankLines(s) ==
  LET breaks == {j \in 1..Len(s) : s[j].c = "nl" /\ s[j].n >= 2}
  IN  IF breaks = {} THEN <<s>>
      ELSE LET j == CHOOSE k \in breaks : \A m \in breaks : k <= m
           IN  <<SubSeq(s, 1, j - 1)>>
                 \o SplitBlankLines(SubSeq(s, j + 1, Len(s)))

\* [p.strip() for p in pieces if p.strip()]
StrippedNonEmpty(pieces) ==
  SelectSeq([j \in 1..Len(pieces) |-> Strip(pieces[j])], LAMBDA p : p # <<>>)

\* [s.strip() for s in re.split(r'(?<=[.!?])\s+', text) if s.strip()]
Sentences(text) == StrippedNonEmpty(SplitSentences(text))

\* its place in sorted(..., key=..., reverse=True) with the items as they come
Rank_Unsorted(keys, j) == j

\* the place of item j in sorted(..., key=..., reverse=True): after the items
\* with a greater key and the earlier items with the same key
Rank(keys, j) ==
  1 + Cardinality({k \in 1..Len(keys) :
                     keys[k] > keys[j] \/ (keys[k] = keys[j] /\ k < j)})

\* sorted(items, key=..., reverse=True), keys[j] the key of items[j]
SortedDesc(items, keys) ==
  [place \in 1..Len(items) |->
     items[CHOOSE j \in 1..Len(items) : Rank(keys, j) = place]]

(***************************************************************************)
(* parser.py                                                               *)
(***************************************************************************)
\* clean_text: white space becomes one space, the ends are stripped, and
\* the space after . ! ? becomes a newline
clean_text(text) ==
  LET t == Strip(CollapseWhitespace(text))
  IN  [j \in 1..Len(t) |->
         IF t[j].c \in WhiteSpace /\ j > 1 /\ t[j - 1].c \in SentenceEnd
         THEN Run("nl", 1) ELSE t[j]]

RECURSIVE GroupSentences(_, _)
\* " ".join(sents[i:i+max_sentences]) for i in range(0, len(sents), max_sentences)
GroupSentences(sents, max_sentences) ==
  IF sents = <<>> THEN <<>>
  ELSE <<Join(FirstN(sents, max_sentences))>>
         \o GroupSentences(SubSeq(sents, max_sentences + 1, Len(sents)),
                           max_sentences)

RECURSIVE Flatten(_)
\* the elements of the lists of lists, in order
Flatten(lists) ==
  IF lists = <<>> THEN <<>> ELSE Head(lists) \o Flatten(Tail(lists))

\* _chunk_paragraphs
chunk_paragraphs(text, max_sentences) ==
  LET paragraphs == StrippedNonEmpty(SplitBlankLines(text))
  IN  SelectSeq(
        Flatten([j \in 1..Len(paragraphs) |->
                   GroupSentences(Sentences(paragraphs[j]), max_sentences)]),
        LAMBDA chunk : StrLen(chunk) >= 80)

(***************************************************************************)
(* smart_quote_extractor.py (scores in thousandths)                        *)
(***************************************************************************)
\* what [^\w\s.,!?;:()\-—""''«»] lets stay
CleanChars ==
  WordChars \cup WhiteSpace
    \cup {"dot", "comma", "excl", "qm", "colon", "dash", "dq", "sq"}

\* SmartQuoteExtractor._clean_text
CleanParagraph(text) == Strip(KeepChars(CollapseWhitespace(text), CleanChars))

\* SmartQuoteExtractor._is_meaningful_sentence: no indicator word (продаж,
\* важно, результат, ...) can be written with the letters of the model
is_meaningful_sentence(sentence) == FALSE

\* the two halves of rule 2 of _extract_quote_candidates
Halves(sentences) ==
  LET mid_point == Len(sentences) \div 2
  IN  IF mid_point > 0
      THEN {h \in {Join(SubSeq(sentences, 1, mid_point)),
                   Join(SubSeq(sentences, mid_point + 1, Len(sentences)))} :
              StrLen(h) >= 50}
      ELSE {}

\* SmartQuoteExtractor._extract_quote_candidates, as the set it makes of them
extract_quote_candidates(paragraph) ==
  LET sentences == Sentences(paragraph)
  IN  (IF StrLen(paragraph) <= 400 THEN {paragraph} ELSE {})
        \cup Halves(sentences)
        \cup {sentences[j] : j \in {k \in 1..Len(sentences) :
                /\ StrLen(sentences[k]) >= 30
                /\ is_meaningful_sentence(sentences[k])}}
        \cup {g \in {Join(SubSeq(sentences, j, j + 1)) :
                       j \in 1..(Len(sentences) - 1)} : StrLen(g) >= 50}

\* the QuoteAnalysis _analyze_quote_quality builds from the dict an LLM
\* answered with
AnalysisFrom(quote, data) ==
  [text |-> quote,
   quote_type |-> Get(data, "quote_type", "specific_quote"),
   quality |-> Get(data, "quality", "average"),
   confidence |-> Get(data, "confidence", 500),
   context_score |-> Get(data, "context_score", 500),
   practical_value |-> Get(data, "practical_value", 500),
   completeness |-> Get(data, "completeness", 500),
   target_audience |-> Get(data, "target_audience", "general"),
   category |-> Get(data, "category", "general"),
   sentiment |-> Get(data, "sentiment", "neutral"),
   reasoning |-> Get(data, "reasoning", ""),
   summary |-> ""]

\* overall_score of _fallback_analysis: a fifth of length_score plus
\* completeness_score, the three word scores being 0 for the model's letters
OverallScore(quote) ==
  (Min(StrLen(quote) * 5, 1000)
     + (IF EndsWithAny(quote, SentenceEnd) THEN 1000 ELSE 500)) \div 5

\* SmartQuoteExtractor._fallback_analysis
fallback_analysis(quote, full_context) ==
  [text |-> quote,
   quote_type |-> IF StrLen(quote) > 300 THEN "full_paragraph"
                  ELSE IF StrLen(quote) > 150 THEN "half_paragraph"
                  ELSE "specific_quote",
   quality |-> IF OverallScore(quote) >= 800 THEN "excellent"
               ELSE IF OverallScore(quote) >= 600 THEN "good"
               ELSE IF OverallScore(quote) >= 400 THEN "average"
               ELSE "poor",
   confidence |-> OverallScore(quote),
   context_score |-> IF full_context = <<>> THEN 500
                     ELSE Min((StrLen(quote) * 1000) \div StrLen(full_context),
                              1000),
   practical_value |-> 0,
   completeness |-> IF EndsWithAny(quote, SentenceEnd) THEN 1000 ELSE 500,
   target_audience |-> "general",
   category |-> "general",
   sentiment |-> "analytical",
   reasoning |-> IF EndsWithAny(quote, SentenceEnd)
                 THEN "a complete thought" ELSE "a standard quote",
   summary |-> "general information"]

\* the answer that stands for no usable answer of any LLM
NoAnswer == [answered |-> FALSE]

\* SmartQuoteExtractor._analyze_quote_quality when the LLM asked answered
\* with the dict answer, or when none gave a usable answer
analyze_quote_quality(quote, full_context, answer) ==
  IF answer = NoAnswer THEN fallback_analysis(quote, full_context)
  ELSE AnalysisFrom(quote, answer)

\* SmartQuoteExtractor.analyze_paragraph of a paragraph that is not blank,
\* when list(set(candidates)) comes in the order of order and the LLM
\* answers candidate j with answers[j]
analyze_paragraph(paragraph, order, answers) ==
  LET analyzed ==
        SelectSeq([j \in 1..Len(order) |->
                     analyze_quote_quality(order[j], CleanParagraph(paragraph),
                                           answers[j])],
                  LAMBDA a : a.quality # "poor")
  IN  FirstN(SortedDesc(analyzed,
                      [j \in 1..Len(analyzed) |-> analyzed[j].confidence]), 3)

\* the quote_data extract_smart_quotes builds from an analysis
QuoteData(analysis, paragraph, page_num) ==
  [page |-> page_num,
   original |-> paragraph,
   quote |-> analysis.text,
   translated |-> analysis.text,
   summary |-> analysis.summary,
   engaging |-> (analysis.quality = "excellent"),
   category |-> analysis.category,
   style |-> "insight",
   meta |-> [sentiment |-> analysis.sentiment,
             target_audience |-> analysis.target_audience,
             length |-> StrLen(analysis.text),
             confidence |-> analysis.confidence,
             context_score |-> analysis.context_score,
             practical_value |-> analysis.practical_value,
             completeness |-> analysis.completeness,
             quote_type |-> analysis.quote_type,
             reasoning |-> analysis.reasoning]]

\* the quote_data of the analyses that are EXCELLENT or GOOD
AcceptedQuotes(found, paragraph, page_num) ==
  LET accepted == SelectSeq(found,
                            LAMBDA a : a.quality \in {"excellent", "good"})
  IN  [j \in 1..Len(accepted) |-> QuoteData(accepted[j], paragraph, page_num)]

RECURSIVE UniqueFrom(_, _, _)
\* the last loop of extract_smart_quotes: the first quote of each stripped
\* text stays
UniqueFrom(items, seen, unique) ==
  IF items = <<>> THEN unique
  ELSE IF Strip(Head(items).quote) \notin seen
       THEN UniqueFrom(Tail(items), seen \cup {Strip(Head(items).quote)},
                       Append(unique, Head(items)))
       ELSE UniqueFrom(Tail(items), seen, unique)

\* sorted by confidence, then the duplicates dropped
UniqueQuotes(found) ==
  UniqueFrom(SortedDesc(found,
                        [j \in 1..Len(found) |-> found[j].meta.confidence]),
             {}, <<>>)

\* the paragraphs extract_smart_quotes goes through, each with its page
ParagraphsOf(chunks, page_nums) ==
  Flatten([j \in 1..Min(Len(chunks), Len(page_nums)) |->
             LET paragraphs == SplitParagraphs(chunks[j])
             IN  [k \in 1..Len(paragraphs) |->
                    [paragraph |-> paragraphs[k], page |-> page_nums[j]]]])

\* the orders in which list(set(candidates)) may come
Orders(S) ==
  {order \in [1..Cardinality(S) -> S] :
     \A x \in S : \E j \in 1..Cardinality(S) : order[j] = x}

(***************************************************************************)
(* agent.py: improve_existing_quotes (scores in thousandths)               *)
(***************************************************************************)
\* "if not original_text or not current_quote: continue" does not apply
IsImprovable(quote_data) ==
  Get(quote_data, "original", <<>>) # <<>> /\ Get(quote_data, "quote", <<>>) # <<>>

\* analysis.quality in [EXCELLENT, GOOD] and analysis.confidence > 0.6
Qualifies(analysis) ==
  analysis.quality \in {"excellent", "good"} /\ analysis.confidence > 600

RECURSIVE BestFrom_Last(_, _)
\* BestFrom taking every analysis that qualifies, whatever its confidence
BestFrom_Last(found, best) ==
  IF found = <<>> THEN best
  ELSE IF Qualifies(Head(found))
       THEN BestFrom_Last(Tail(found), Head(found))
       ELSE BestFrom_Last(Tail(found), best)

RECURSIVE BestFrom(_, _)
\* the loop "for analysis in analyses": best_analysis as it ends, being best
\* when the analyses of found are still to come
BestFrom(found, best) ==
  IF found = <<>> THEN best
  ELSE IF /\ Qualifies(Head(found))
          /\ (best = None \/ Head(found).confidence > best.confidence)
       THEN BestFrom(Tail(found), Head(found))
       ELSE BestFrom(Tail(found), best)

\* improved_quote when best_analysis was found
ImprovedQuote(quote_data, best) ==
  [quote |-> best.text,
   translated |-> best.text,
   summary |-> best.summary,
   engaging |-> (best.quality = "excellent"),
   category |-> best.category,
   meta |-> [sentiment |-> best.sentiment,
             target_audience |-> best.target_audience,
             length |-> StrLen(best.text),
             confidence |-> best.confidence,
             context_score |-> best.context_score,
             practical_value |-> best.practical_value,
             completeness |-> best.completeness,
             quote_type |-> best.quote_type,
             reasoning |-> best.reasoning,
             improved |-> TRUE]
            @@ Get(quote_data, "meta", EmptyDict)]
    @@ quote_data

\* improved_quote when no analysis qualifies
KeptQuote(quote_data) ==
  [meta |-> [improved |-> FALSE, reasoning |-> "no better alternative"]
            @@ Get(quote_data, "meta", EmptyDict)]
    @@ quote_data

\* what the loop of improve_existing_quotes appends for quote_data when
\* analyze_paragraph returned found
Improved(quote_data, found) ==
  IF BestFrom(found, None) = None THEN KeptQuote(quote_data)
  ELSE ImprovedQuote(quote_data, BestFrom(found, None))

\* the dedup of improve_existing_quotes: by stripped quote text, the first
\* one stays
UniqueImproved(items) == DedupFrom(items, {}, <<>>)

(***************************************************************************)
(* agent.py: quotes out of a chunk of text                                 *)
(***************************************************************************)
\* the terms of heuristic_candidates that the letters of the model can
\* write: "лид"
HeuristicTerms == {Spell(<<"l", "i", "d">>)}

\* the words of its verb pattern that the letters of the model can write:
\* "есть"
HeuristicVerbs == {Spell(<<"e", "s", "t", "soft">>)}

\* the record heuristic_candidates makes of a sentence
HeuristicQuote(text, sent) ==
  [original |-> text,
   summary |-> "",
   quote |-> Strip(Take(sent, 250)),
   translated |-> Strip(Take(sent, 250)),
   engaging |-> TRUE,
   category |-> "marketing",
   style |-> "insight",
   meta |-> [sentiment |-> "motivational",
             target_audience |-> "entrepreneurs, marketers",
             length |-> StrLen(Strip(Take(sent, 250)))]]

\* a sentence heuristic_candidates takes: 60 characters, a term, a verb
IsHeuristicSentence(sent) ==
  /\ StrLen(sent) >= 60
  /\ \E t \in HeuristicTerms : Contains(sent, t)
  /\ RegexWords(sent) \cap HeuristicVerbs # {}

RECURSIVE HeuristicFrom(_, _, _)
\* the loop of heuristic_candidates: it stops at two results
HeuristicFrom(text, sents, found) ==
  IF sents = <<>> \/ Len(found) >= 2 THEN found
  ELSE IF IsHeuristicSentence(Strip(Head(sents)))
       THEN HeuristicFrom(text, Tail(sents),
                          Append(found, HeuristicQuote(text, Strip(Head(sents)))))
       ELSE HeuristicFrom(text, Tail(sents), found)

\* _extract_engaging_from_chunk.heuristic_candidates
heuristic_candidates(text) == HeuristicFrom(text, SplitSentences(text), <<>>)

\* a or b for two texts
OrText(a, b) == IF a # <<>> THEN a ELSE b

\* the quote_data _extract_engaging_from_chunk hands to the validator for an
\* object of an LLM
ChunkQuoteData(obj, chunk) ==
  [original |-> OrText(Get(obj, "original", <<>>), chunk),
   summary |-> Get(obj, "summary", ""),
   quote |-> Strip(Get(obj, "quote", <<>>)),
   translated |-> OrText(Get(obj, "translated", <<>>),
                         Strip(Get(obj, "quote", <<>>))),
   engaging |-> TRUE,
   category |-> Get(obj, "category", ""),
   style |-> Get(obj, "style", "insight"),
   meta |-> Get(obj, "meta", EmptyDict)]

\* "if validated: cleaned.append(validated)"
KeepValidated(validated, rest) ==
  IF validated = None THEN rest ELSE <<validated>> \o rest

RECURSIVE ValidateObjects(_, _)
\* the loop over the objects of an LLM: those without a quote are skipped,
\* the others go through the validator
ValidateObjects(objs, chunk) ==
  IF objs = <<>> THEN <<>>
  ELSE IF Strip(Get(Head(objs), "quote", <<>>)) = <<>>
       THEN ValidateObjects(Tail(objs), chunk)
       ELSE KeepValidated(get_validated_quote(ChunkQuoteData(Head(objs), chunk)),
                          ValidateObjects(Tail(objs), chunk))

\* the loop of harvest_all_from_pdf over the items of a chunk
WithPage(items, idx) ==
  LET kept == SelectSeq(items, LAMBDA it : Strip(Get(it, "quote", <<>>)) # <<>>)
  IN  [j \in 1..Len(kept) |-> [page |-> idx] @@ kept[j]]

\* text_chunks and page_numbers of harvest_all_from_pdf
TextChunks(pages) ==
  Flatten([idx \in 1..Len(pages) |->
             LET paragraphs ==
                   SelectSeq(SplitParagraphs(clean_text(pages[idx])),
                             LAMBDA p : StrLen(Strip(p)) > 100)
             IN  [k \in 1..Len(paragraphs) |->
                    [chunk |-> paragraphs[k], page |-> idx]]])

\* the chunks of the fallback loop of harvest_all_from_pdf, each with its page
FallbackChunks(pages, max_sentences) ==
  Flatten([idx \in 1..Len(pages) |->
             LET chunks == chunk_paragraphs(clean_text(pages[idx]), max_sentences)
             IN  [k \in 1..Len(chunks) |-> [chunk |-> chunks[k], page |-> idx]]])

(***************************************************************************)
(* gemini_extractor.py (scores in hundredths)                              *)
(***************************************************************************)
RECURSIVE FullText(_)
\* "\n\n".join([clean_text(page) for page in pages])
FullText(page_texts) ==
  IF page_texts = <<>> THEN <<>>
  ELSE IF Len(page_texts) = 1 THEN clean_text(Head(page_texts))
  ELSE Cat(Cat(clean_text(Head(page_texts)), <<Run("nl", 2)>>),
           FullText(Tail(page_texts)))

\* the record extract_all_insights_from_text makes of object idx of the answer
Processed(quote_data, idx) ==
  [quote |-> Strip(Get(quote_data, "quote", <<>>)),
   translated |-> Strip(Get(quote_data, "quote", <<>>)),
   summary |-> Get(quote_data, "summary", ""),
   category |-> Get(quote_data, "category", "myshlenie"),
   style |-> Get(quote_data, "style", "insight"),
   engaging |-> Get(quote_data, "engaging_score", 50) > 60,
   meta |-> [practical_value |-> Get(quote_data, "practical_value", 70),
             engaging_score |-> Get(quote_data, "engaging_score", 70),
             page_hint |-> Get(quote_data, "page_hint", ""),
             extraction_method |-> "gemini_deep_scan",
             quote_index |-> idx,
             length |-> StrLen(Get(quote_data, "quote", <<>>))]]

\* processed_quotes: the records whose quote has 30 to 500 characters
ProcessedQuotes(quotes_list) ==
  SelectSeq([idx \in 1..Len(quotes_list) |-> Processed(quotes_list[idx], idx)],
            LAMBDA processed : /\ 30 <= StrLen(processed.quote)
                               /\ StrLen(processed.quote) <= 500)

\* GeminiDeepExtractor.extract_all_insights_from_text, given how the call of
\* Gemini and the parsing of its answer went: any exception gives []
extract_all_insights_from_text(outcome) ==
  IF outcome.kind = "json" THEN ProcessedQuotes(outcome.quotes) ELSE <<>>

\* the payload extract_from_pdf_deep_scan writes
DeepPayload(book_title, page_texts, found) ==
  DictPayload([book |-> book_title,
               extraction_method |-> "gemini_deep_scan",
               total_pages |-> Len(page_texts),
               total_chars |-> StrLen(FullText(page_texts)),
               total_quotes |-> Len(found),
               quotes |-> found])

\* a file that open() has created and json.dump has not finished
PartialFile == [kind |-> "partial"]

(***************************************************************************)
(* database.py: the table quotes                                           *)
(***************************************************************************)
\* NULL
Null == [null |-> TRUE]

\* the row add_quote inserts for quote_data: published is 0 and published_at
\* is NULL by the schema
QuoteRow(quote_id, quote_data) ==
  [id |-> quote_id,
   quote_text |-> Get(quote_data, "quote", <<>>),
   is_engaging |-> Get(quote_data, "engaging", FALSE),
   quality_score |->
     Get(Get(quote_data, "meta", EmptyDict), "confidence",
         Get(Get(quote_data, "validation", EmptyDict), "overall_score", 50)),
   published |-> FALSE,
   published_at |-> Null]

\* QuotesDatabase.add_quote
add_quote(table, quote_data) ==
  Append(table, QuoteRow(Len(table) + 1, quote_data))

RECURSIVE AddQuotes(_, _)
\* the loop of migrate_json_file over the quotes of a file
AddQuotes(table, quotes_list) ==
  IF quotes_list = <<>> THEN table
  ELSE AddQuotes(add_quote(table, Head(quotes_list)), Tail(quotes_list))

\* QuotesDatabase.mark_as_published
mark_as_published(table, quote_id) ==
  [j \in 1..Len(table) |->
     IF table[j].id = quote_id
     THEN [table[j] EXCEPT !.published = TRUE,
                           !.published_at = [at |-> "CURRENT_TIMESTAMP"]]
     ELSE table[j]]

\* QuotesDatabase.get_quotes with only_engaging and only_unpublished, as the
\* set of the rows it returns (there are fewer rows than its limit)
get_quotes(table, only_engaging, only_unpublished) ==
  {table[j] : j \in {k \in 1..Len(table) :
                       /\ only_engaging => table[k].is_engaging = TRUE
                       /\ only_unpublished => table[k].published = FALSE}}

(***************************************************************************)
(* app.py: the publish button                                              *)
(***************************************************************************)
\* the items the first loop of the handler can select
EngagingWithQuote(shown) ==
  {j \in 1..Len(shown) :
     /\ "engaging" \in DOMAIN shown[j]
     /\ shown[j].engaging = TRUE
     /\ Get(shown[j], "quote", <<>>) # <<>>}

\* the place in filtered of the item whose text is selected, 0 if none
SelectedItem(shown) ==
  IF EngagingWithQuote(shown) # {}
  THEN CHOOSE j \in EngagingWithQuote(shown) :
         \A k \in EngagingWithQuote(shown) : j <= k
  ELSE IF shown # <<>> THEN 1 ELSE 0

\* selected: the quote of the first engaging item that has one, else the
\* stripped quote or translated of the first item
Selected(shown) ==
  IF EngagingWithQuote(shown) # {} THEN shown[SelectedItem(shown)].quote
  ELSE IF shown # <<>>
       THEN Strip(FirstText(shown[1], <<"quote", "translated">>))
       ELSE <<>>

(***************************************************************************)
(* Input texts                                                             *)
(***************************************************************************)
Word4 == <<Run("b", 4)>>

\* the verb "бит"
VerbWord == <<Run("b", 1), Run("i", 1), Run("t", 1)>>

\* seven words, one of them a verb, 33 characters, no final punctuation
Phrase == Join(<<Word4, VerbWord, Word4, Word4, Word4, Word4, Word4>>)

\* five words, none a verb, 24 characters, no final punctuation
ShortPhrase == Join(<<Word4, Word4, Word4, Word4, Word4>>)

\* a newline and seven spaces
Gap == <<Run("nl", 1), Run("sp", 7)>>

\* eight one-digit words, each after a space
Digits == Join(<<<<>>, <<Run("7", 1)>>, <<Run("7", 1)>>, <<Run("7", 1)>>,
                 <<Run("7", 1)>>, <<Run("7", 1)>>, <<Run("7", 1)>>,
                 <<Run("7", 1)>>, <<Run("7", 1)>>>>)

\* two words of 250 letters, each after a space, and a full stop: 503 characters
BigWords ==
  Join(<<<<>>, <<Run("b", 250)>>, <<Run("b", 250), Run("dot", 1)>>>>)

\* one word of 498 letters and a space
GiantWord == <<Run("b", 498), Run("sp", 1)>>

\* the pieces the input texts are put together from
SegmentLibrary ==
  {Phrase, ShortPhrase, Sp, Gap, <<Run("dot", 1)>>, <<Run("comma", 1)>>,
   <<Run("copy", 1)>>, Digits, BigWords, GiantWord}

RECURSIVE TextsUpTo(_)
\* every text made of at most n pieces of the library
TextsUpTo(n) ==
  IF n = 0 THEN {<<>>}
  ELSE LET shorter == TextsUpTo(n - 1)
       IN  shorter \cup {Cat(t, seg) : t \in shorter, seg \in SegmentLibrary}

\* the "meta" dicts of the input records (scores in hundredths)
InputMetas ==
  {[confidence |-> 40],
   [confidence |-> 90, practical_value |-> 50, sentiment |-> "neutral",
    validated |-> FALSE]}

\* what an input record holds beside its quote: no meta, or one of InputMetas
InputRest ==
  {[page |-> 1, category |-> "marketing", translated |-> Word4]}
    \cup {[meta |-> m, style |-> "rule"] : m \in InputMetas}

\* the records handed to the validator, and one without a quote
ValidatorInputs ==
  {[quote |-> t] @@ rest : t \in TextsUpTo(MaxSegs), rest \in InputRest}
    \cup {[page |-> 1]}

(***************************************************************************)
(* Quote files and LLM answers                                             *)
(***************************************************************************)
\* a sentence the validator accepts: 34 characters
Saying == Cat(Phrase, <<Run("dot", 1)>>)

\* the same sentence between white space
SayingPadded == Cat(Cat(Gap, Saying), Sp)

\* another sentence the validator accepts
OtherSaying == Cat(Phrase, <<Run("excl", 1)>>)

\* Saying followed by 503 characters: the validator cuts it back to Saying
LongSaying == Cat(Saying, BigWords)

\* the records a quotes file may hold
StoredQuotes ==
  {[quote |-> Saying, page |-> 1],
   [quote |-> SayingPadded, engaging |-> FALSE],
   [original |-> OtherSaying],
   [quote |-> ShortPhrase, page |-> 2],
   [page |-> 3],
   [quote |-> LongSaying, meta |-> [confidence |-> 90],
    category |-> "marketing"]}

RECURSIVE SeqsUpTo(_, _)
\* the sequences of at most n elements of S
SeqsUpTo(S, n) ==
  IF n = 0 THEN {<<>>}
  ELSE LET shorter == SeqsUpTo(S, n - 1)
       IN  shorter \cup {Append(s, x) : s \in shorter, x \in S}

\* what a quotes file may hold
InputPayloads ==
  {DictPayload([book |-> "Book", quotes |-> qs]) :
     qs \in SeqsUpTo(StoredQuotes, MaxQuotes)}
    \cup {ListPayload(qs) : qs \in SeqsUpTo(StoredQuotes, MaxQuotes)}
    \cup {DictPayload([title |-> "Book"])}

\* the objects an LLM may answer with
ReplyItems ==
  {[quote |-> OtherSaying],
   [quote |-> <<>>],
   [quote |-> LongSaying, engaging |-> FALSE],
   [category |-> "sales"]}

\* the lists an LLM may answer with
Replies == SeqsUpTo(ReplyItems, MaxReply)

Paths ==
  {"in.json", "out.json", "book.pdf", "data/quotes/book.json",
   "data/quotes/book_deep.json"}

\* Path(p).stem
Stem(p) ==
  CASE p = "in.json" -> "in"
    [] p = "out.json" -> "out"
    [] p = "book.pdf" -> "book"
    [] p = "data/quotes/book.json" -> "book"
    [] p = "data/quotes/book_deep.json" -> "book_deep"

\* the file in data/quotes named after a book: stem.replace(" ", "-") + ".json"
QuotesFile(book_title) == "data/quotes/book.json"

\* the file in data/quotes for the deep scan of a book:
\* book_title.replace(" ", "-") + "_deep.json"
DeepFile(book_title) == "data/quotes/book_deep.json"

\* a PDF with the text of its pages
PdfFile(page_texts) == [kind |-> "pdf", value |-> page_texts]

\* which LLM clients the process has: is_claude_available(), client is not None
Environments == [claude : BOOLEAN, openai : BOOLEAN]

(***************************************************************************)
(* Chunks of text, pages of a book and the answers about a quote           *)
(***************************************************************************)
\* a word of 20 letters
LongWord == <<Run("b", 20)>>

\* two sentences of 67 and 68 characters, each with the verb "бит"
SentenceA ==
  Join(<<VerbWord, LongWord, LongWord, Cat(LongWord, <<Run("dot", 1)>>)>>)

SentenceB ==
  Join(<<VerbWord, Cat(LongWord, <<Run("comma", 1)>>), LongWord,
         Cat(LongWord, <<Run("excl", 1)>>)>>)

\* a paragraph of two sentences
TwoSentences == Join(<<SentenceA, SentenceB>>)

\* a paragraph of three sentences: it has four candidates
ThreeSentences == Join(<<SentenceA, SentenceB, SentenceA>>)

\* two paragraphs that are the same once cleaned
SameTwice ==
  Cat(Cat(TwoSentences, <<Run("nl", 1), Run("sp", 1), Run("nl", 1)>>),
      Cat(Cat(SentenceA, Gap), SentenceB))

\* a short paragraph with characters that _clean_text removes
Marked == Cat(<<Run("copy", 1)>>, Cat(Saying, <<Run("star", 1)>>))

\* a chunk of white space
Blank == <<Run("sp", 2), Run("nl", 1)>>

\* the text_chunks extract_smart_quotes is called with
ChunkLists ==
  SeqsUpTo({TwoSentences, Marked, Blank}, MaxChunks)
    \cup {<<ThreeSentences>>, <<SameTwice>>}

\* a page of two sentences
PagePlain == Cat(Cat(SentenceA, <<Run("sp", 2)>>), SentenceB)

\* a page of 125 characters that is the beginning of a sentence
PageUnfinished ==
  Join(<<LongWord, LongWord, LongWord, LongWord, LongWord, LongWord>>)

\* a page of one sentence of 261 characters with the term "лид" and the
\* verb "есть"
PageHeuristic ==
  Cat(Join(<<Spell(<<"l", "i", "d">>), Spell(<<"e", "s", "t", "soft">>)>>
             \o [j \in 1..12 |-> LongWord]),
      <<Run("dot", 1)>>)

\* the pages a PDF may have
PageLibrary == {PagePlain, PageUnfinished, PageHeuristic, Saying}

\* what an LLM may answer about a quote (confidence in thousandths)
QualityAnswers ==
  {[quality |-> "excellent", confidence |-> 900],
   [quality |-> "good", confidence |-> 500],
   [quality |-> "poor"]}

\* the records of a quotes file that improve_existing_quotes goes through
ImprovableQuotes ==
  {[original |-> TwoSentences, quote |-> Saying, page |-> 1,
    meta |-> [sentiment |-> "neutral", improved |-> FALSE]],
   [original |-> Saying, quote |-> SayingPadded],
   [original |-> Blank, quote |-> Saying, category |-> "marketing"],
   [original |-> <<>>, quote |-> OtherSaying],
   [quote |-> Saying, page |-> 2]}

\* what the quotes file of improve_existing_quotes may hold
ImprovePayloads ==
  {DictPayload([book |-> "Book", quotes |-> qs]) :
     qs \in SeqsUpTo(ImprovableQuotes, MaxQuotes)}
    \cup {ListPayload(<<>>), DictPayload([title |-> "Book"])}

(***************************************************************************)
(* Answers of Gemini and the quotes the page shows                         *)
(***************************************************************************)
\* the objects an answer of Gemini may hold
GeminiItems ==
  {[quote |-> Saying, engaging_score |-> 90],
   [quote |-> SayingPadded],
   [quote |-> ShortPhrase],
   [quote |-> LongSaying],
   [summary |-> "no quote"]}

\* how the call of Gemini and the parsing of its answer may go
GeminiOutcomes ==
  {[kind |-> "raises"], [kind |-> "not_json"]}
    \cup {[kind |-> "json", quotes |-> reply] :
            reply \in SeqsUpTo(GeminiItems, MaxReply)}

\* the items of a quotes file the page may show; improve_existing_quotes
\* saves the text of the best candidate as it is, and a half of a paragraph
\* or a pair of sentences may have any length
ShownItems ==
  {[quote |-> Saying, engaging |-> TRUE],
   [quote |-> LongSaying, engaging |-> TRUE, meta |-> [improved |-> TRUE]],
   [quote |-> OtherSaying, engaging |-> FALSE, meta |-> [confidence |-> 90]],
   [quote |-> <<>>, translated |-> SayingPadded, engaging |-> TRUE],
   [summary |-> "no text"]}

\* ACCESS_TOKEN and IG_USER_ID are set; INSTAGRAM_USERNAME and
\* INSTAGRAM_PASSWORD are set
Credentials == [official : BOOLEAN, threads_api : BOOLEAN]

(***************************************************************************)
(* State                                                                   *)
(***************************************************************************)
VARIABLES
  pc,          \* where the call of get_validated_quote stands
  quote_data,  \* its argument
  quote_text,  \* validate_full_pipeline's local: the text the next stage gets
  results,     \* validate_full_pipeline's results, in insertion order
  passed,      \* validate_full_pipeline's verdict
  returned,    \* what get_validated_quote returned
  files,       \* the file system: what each path holds
  env,         \* which LLM clients the process has
  rq_pc,       \* where the call of refine_quotes stands
  rq_args,     \* its arguments
  quotes,      \* refine_quotes' quotes
  rq_i,        \* its loop variable i
  refined_all, \* its refined_all
  taken,       \* the branch the running _refine_batch took
  candidates,  \* the items that branch hands to _local_polish
  refined,     \* what _refine_batch returns
  rq_ret,      \* what refine_quotes returned or raised
  ex_pc,         \* where the call of extract_smart_quotes stands
  text_chunks,   \* its argument text_chunks
  page_numbers,  \* its argument page_numbers
  ex_n,          \* the paragraph its loops stand at
  all_quotes,    \* its all_quotes
  analyses,      \* what analyze_paragraph returned for the last paragraph
  unique_quotes, \* what it returns
  hv_pc,       \* where the call of harvest_all_from_pdf stands
  hv_args,     \* its arguments
  pages,       \* its pages
  hv_n,        \* the chunk its fallback loop stands at
  hv_objs,     \* the objects an LLM found in that chunk
  collected,   \* its collected
  hv_ret,      \* what it returned or raised
  gemini_key,  \* GEMINI_API_KEY is set
  ds_pc,       \* where the call of deep_scan_with_gemini stands
  ds_args,     \* its arguments
  ds_pages,    \* pages of extract_from_pdf_deep_scan
  ds_quotes,   \* its all_quotes
  ds_event,    \* what ended the call
  ds_ret,      \* what deep_scan_with_gemini returned or raised
  creds,          \* which credentials of Threads are set
  filtered,       \* the quotes the page shows
  rows,           \* the table quotes of the database
  threads_posts,  \* the posts Threads has accepted, each with the place in
                  \* filtered of the quote it was made of
  pb_msg,         \* what the press of the publish button ended with
  im_pc,            \* where the call of improve_existing_quotes stands
  im_args,          \* its arguments
  im_quotes,        \* its quotes
  im_n,             \* the quote its loop stands at
  improved_quotes,  \* its improved_quotes
  im_analyses,      \* its analyses of the last quote analysed
  im_ret,           \* what it returned or raised
  pt_env,        \* ACCESS_TOKEN is set; IG_USER_ID is set
  pt_pc,         \* where the call of publish_to_threads of app_gemini.py stands
  pt_caption,    \* its caption
  pt_requests,   \* the requests it has sent to graph.threads.net
  pt_responses,  \* what came back for each of them
  pt_msg,        \* the message it showed last
  pt_ret         \* what it returned or raised

validatorVars == <<pc, quote_data, quote_text, results, passed, returned>>

worldVars == <<files, env>>

refineVars ==
  <<rq_pc, rq_args, quotes, rq_i, refined_all, taken, candidates, refined,
    rq_ret>>

extractVars ==
  <<ex_pc, text_chunks, page_numbers, ex_n, all_quotes, analyses,
    unique_quotes>>

harvestVars == <<hv_pc, hv_args, pages, hv_n, hv_objs, collected, hv_ret>>

deepVars ==
  <<gemini_key, ds_pc, ds_args, ds_pages, ds_quotes, ds_event, ds_ret>>

publishVars == <<creds, filtered, rows, threads_posts, pb_msg>>

improveVars ==
  <<im_pc, im_args, im_quotes, im_n, improved_quotes, im_analyses, im_ret>>

threadsVars ==
  <<pt_env, pt_pc, pt_caption, pt_requests, pt_responses, pt_msg, pt_ret>>

vars ==
  <<validatorVars, worldVars, refineVars, extractVars, harvestVars, deepVars,
    publishVars, improveVars, threadsVars>>

\* what the steps of get_validated_quote leave alone
outsideValidator ==
  <<worldVars, refineVars, extractVars, harvestVars, deepVars, publishVars,
    improveVars, threadsVars>>

\* what the steps of refine_quotes leave alone, beside the world
outsideRefine ==
  <<validatorVars, extractVars, harvestVars, deepVars, publishVars,
    improveVars, threadsVars>>

\* what the steps of extract_smart_quotes leave alone
outsideExtract ==
  <<validatorVars, worldVars, refineVars, harvestVars, deepVars, publishVars,
    improveVars, threadsVars>>

\* what the steps of harvest_all_from_pdf leave alone, beside the world and
\* the extractor
outsideHarvest ==
  <<validatorVars, refineVars, deepVars, publishVars, improveVars,
    threadsVars>>

\* what the steps of deep_scan_with_gemini leave alone, beside the world
outsideDeep ==
  <<validatorVars, refineVars, extractVars, harvestVars, publishVars,
    improveVars, threadsVars>>

\* what the publish button and the database leave alone
outsidePublish ==
  <<validatorVars, worldVars, refineVars, extractVars, harvestVars, deepVars,
    improveVars, threadsVars>>

\* what the steps of improve_existing_quotes leave alone, beside the world
outsideImprove ==
  <<validatorVars, refineVars, extractVars, harvestVars, deepVars,
    publishVars, threadsVars>>

\* what the steps of publish_to_threads of app_gemini.py leave alone
outsideThreads ==
  <<validatorVars, worldVars, refineVars, extractVars, harvestVars, deepVars,
    publishVars, improveVars>>

\* no call of get_validated_quote is being followed
ValidatorIdle ==
  /\ pc = "idle"
  /\ quote_data = EmptyDict
  /\ quote_text = <<>>
  /\ results = <<>>
  /\ passed = FALSE
  /\ returned = None

\* the process has no LLM client and the file system is empty
WorldIdle ==
  /\ files = [p \in Paths |-> Missing]
  /\ env = [claude |-> FALSE, openai |-> FALSE]

\* no call of deep_scan_with_gemini is being followed
DeepIdle ==
  /\ gemini_key = FALSE
  /\ ds_pc = "idle"
  /\ ds_args = [pdf_path |-> "book.pdf", output |-> ""]
  /\ ds_pages = <<>>
  /\ ds_quotes = <<>>
  /\ ds_event = "none"
  /\ ds_ret = [running |-> FALSE]

\* the page is not shown and the database is empty
PublishIdle ==
  /\ creds = [official |-> FALSE, threads_api |-> FALSE]
  /\ filtered = <<>>
  /\ rows = <<>>
  /\ threads_posts = <<>>
  /\ pb_msg = "none"

\* no call of extract_smart_quotes is being followed
ExtractIdle ==
  /\ ex_pc = "idle"
  /\ text_chunks = <<>>
  /\ page_numbers = <<>>
  /\ ex_n = 1
  /\ all_quotes = <<>>
  /\ analyses = <<>>
  /\ unique_quotes = <<>>

\* no call of harvest_all_from_pdf is being followed
HarvestIdle ==
  /\ hv_pc = "idle"
  /\ hv_args = [pdf_path |-> "book.pdf", output |-> "", max_sentences |-> 5]
  /\ pages = <<>>
  /\ hv_n = 1
  /\ hv_objs = <<>>
  /\ collected = <<>>
  /\ hv_ret = [running |-> FALSE]

\* no call of publish_to_threads of app_gemini.py is being followed
ThreadsIdle ==
  /\ pt_env = [access_token |-> FALSE, ig_user_id |-> FALSE]
  /\ pt_pc = "idle"
  /\ pt_caption = <<>>
  /\ pt_requests = <<>>
  /\ pt_responses = <<>>
  /\ pt_msg = "none"
  /\ pt_ret = [running |-> FALSE]

\* no call of improve_existing_quotes is being followed
ImproveIdle ==
  /\ im_pc = "idle"
  /\ im_args = [input |-> "in.json", output |-> ""]
  /\ im_quotes = <<>>
  /\ im_n = 1
  /\ improved_quotes = <<>>
  /\ im_analyses = <<>>
  /\ im_ret = [running |-> FALSE]

\* no call of refine_quotes is being followed
RefineIdle ==
  /\ rq_pc = "idle"
  /\ rq_args = [input |-> "in.json", output |-> "", batch_size |-> 30]
  /\ quotes = <<>>
  /\ rq_i = 0
  /\ refined_all = <<>>
  /\ taken = "none"
  /\ candidates = <<>>
  /\ refined = <<>>
  /\ rq_ret = [running |-> FALSE]

(***************************************************************************)
(* get_validated_quote, stage by stage                                     *)
(***************************************************************************)
InitValidator ==
  /\ quote_data \in ValidatorInputs
  /\ pc = "basic"
  /\ quote_text = StartPipeline(quote_data).quote_text
  /\ results = <<>>
  /\ passed = FALSE
  /\ returned = None
  /\ WorldIdle
  /\ RefineIdle
  /\ ExtractIdle
  /\ HarvestIdle
  /\ DeepIdle
  /\ PublishIdle
  /\ ImproveIdle
  /\ ThreadsIdle

\* the stage at pc has produced result: validate_full_pipeline records it
\* and moves on
Record(result) ==
  LET st == Advance([pc |-> pc, quote_text |-> quote_text,
                     results |-> results, passed |-> passed], result)
  IN  /\ pc' = st.pc
      /\ quote_text' = st.quote_text
      /\ results' = st.results
      /\ passed' = st.passed

Basic ==
  /\ pc = "basic"
  /\ Record(validate_basic(quote_text))
  /\ UNCHANGED <<quote_data, returned>>
  /\ UNCHANGED outsideValidator

Meaningfulness ==
  /\ pc = "meaningfulness"
  /\ Record(validate_meaningfulness(quote_text, quote_data))
  /\ UNCHANGED <<quote_data, returned>>
  /\ UNCHANGED outsideValidator

ThreadsOptimization ==
  /\ pc = "threads_optimization"
  /\ Record(optimize_for_threads(quote_text, quote_data))
  /\ UNCHANGED <<quote_data, returned>>
  /\ UNCHANGED outsideValidator

FinalQuality ==
  /\ pc = "final_quality"
  /\ Record(validate_final_quality(quote_text, quote_data))
  /\ UNCHANGED <<quote_data, returned>>
  /\ UNCHANGED outsideValidator

\* validate_full_pipeline has returned: get_validated_quote builds its answer
Return ==
  /\ pc = "return"
  /\ returned' = ReturnValue(quote_data, passed, results)
  /\ pc' = "done"
  /\ UNCHANGED <<quote_data, quote_text, results, passed>>
  /\ UNCHANGED outsideValidator

NextValidator ==
  \/ Basic
  \/ Meaningfulness
  \/ ThreadsOptimization
  \/ FinalQuality
  \/ Return

SpecValidator == InitValidator /\ [][NextValidator]_vars

(***************************************************************************)
(* Claims about the validator                                              *)
(***************************************************************************)
InputQuote == Get(quote_data, "quote", <<>>)

\* C1: whatever the length of the input text, a record that
\* get_validated_quote returns holds a quote of at most 500 characters
C1_ReturnedQuoteFitsThreads ==
  (pc = "done" /\ returned # None)
    => StrLen(returned["quote"]) <= THREADS_MAX_LENGTH

\* an input of more than 500 characters was accepted and cut to 30..500
C1_Witness ==
  /\ pc = "done"
  /\ returned # None
  /\ StrLen(InputQuote) > THREADS_MAX_LENGTH
  /\ StrLen(returned["quote"]) >= MIN_MEANINGFUL_LENGTH

StageNames(res) == [j \in 1..Len(res) |-> res[j].stage]

IsPrefix(a, b) == Len(a) <= Len(b) /\ a = SubSeq(b, 1, Len(a))

\* the text stage number j has to be given: the stripped input for the first
\* stage, the quote the stage before returned for the others
TextFor(j) ==
  IF j = 1 THEN Strip(InputQuote) ELSE results[j - 1].quote

C2_StagesInOrder ==
  /\ IsPrefix(StageNames(results), StageOrder)
  /\ \A j \in 1..Len(results) :
       results[j] = RunStage(StageOrder[j], TextFor(j), quote_data)
  /\ \A j \in 1..(Len(results) - 1) : ~StopsPipeline(results[j])
  /\ pc \in {"return", "done"}
       => Len(results) = Len(StageOrder) \/ StopsPipeline(Last(results))

C2_NothingAfterFailure ==
  (results # <<>> /\ StopsPipeline(Last(results))) => results' = results

\* C2: the stages run in the order basic, meaningfulness,
\* threads_optimization, final_quality, each on the quote the stage before
\* returned; a FAILED basic or meaningfulness stage ends the pipeline, so the
\* results are a prefix of that order and no stage runs after a failed one
C2_PipelineOrder == []C2_StagesInOrder /\ [][C2_NothingAfterFailure]_vars

\* the pipeline stopped at a failed meaningfulness stage, after a basic stage
\* that changed the text
C2_Witness ==
  /\ pc = "done"
  /\ Len(results) = 2
  /\ results[2].status = "failed"
  /\ results[1].quote # Strip(InputQuote)

\* C3: passed is True exactly when all four stages ran and none is FAILED
\* (WARNING and OPTIMIZED pass), and get_validated_quote returns None exactly
\* when passed is False
C3_PassedIffNoFailure ==
  /\ pc \in {"return", "done"}
       => (passed <=> /\ Len(results) = Len(StageOrder)
                      /\ \A j \in 1..Len(results) : results[j].status # "failed")
  /\ pc = "done" => ((returned = None) <=> ~passed)

\* a record was returned although one stage warned and another optimized
C3_Witness ==
  /\ pc = "done"
  /\ passed
  /\ returned # None
  /\ \E j \in 1..Len(results) : results[j].status = "warning"
  /\ \E j \in 1..Len(results) : results[j].status = "optimized"

\* C12: get_validated_quote is idempotent on its own output: applied to a
\* record it returned it returns a record again, with the same quote text
C12_IdempotentOnOutput ==
  (pc = "done" /\ returned # None) =>
    /\ get_validated_quote(returned) # None
    /\ get_validated_quote(returned).quote = returned.quote

\* C13: every record get_validated_quote returns has a quote of at least 30
\* characters
C13_ReturnedQuoteIsLongEnough ==
  (pc = "done" /\ returned # None) =>
    StrLen(returned.quote) >= MIN_MEANINGFUL_LENGTH

\* the text ends with three dots, or with a comma, a colon, a dash or a
\* star and any white space after it
EndsWithMarker(text) ==
  \/ text # <<>> /\ Last(text).c = "dot" /\ Last(text).n >= 3
  \/ /\ RStrip(text) # <<>>
     /\ Last(RStrip(text)).c \in {"comma", "colon", "dash", "star"}

\* C14: every quote get_validated_quote returns ends with one of . ! ? the
\* ellipsis sign " ' and its end matches no marker of an incomplete thought
C14_ReturnedQuoteIsComplete ==
  (pc = "done" /\ returned # None) =>
    /\ returned.quote # <<>>
    /\ Last(returned.quote).c \in {"dot", "excl", "qm", "ell", "dq", "sq"}
    /\ ~EndsWithMarker(returned.quote)

\* the text _validate_basic was given
BasicInput == Strip(InputQuote)

\* the runs of text that stay when each run of white space is collapsed:
\* those that are not white space, and the first of each run of white space
KeptRuns(text) ==
  {k \in 1..Len(text) :
     \/ text[k].c \notin WhiteSpace
     \/ k = 1
     \/ text[k - 1].c \notin WhiteSpace}

\* out is text with every run of white space replaced by a single space
IsCollapsed(text, out) ==
  /\ Len(out) = Cardinality(KeptRuns(text))
  /\ \A k \in KeptRuns(text) :
       LET j == Cardinality({m \in KeptRuns(text) : m <= k})
       IN  out[j] = IF text[k].c \in WhiteSpace THEN Run("sp", 1) ELSE text[k]

MeaningInput == results[1].quote

\* the product of the four penalties for text, each factor in hundredths
PenaltyProduct(text) ==
  LET words == SplitWords(text)
      long_words == SelectSeq(words, LAMBDA w : StrLen(w) > 3 /\ ~IsDigit(w))
      p1 == IF text # <<>> /\ Last(text).c \in {"dot", "excl", "qm", "ell", "dq", "sq"}
            THEN 100 ELSE 30
      p2 == IF EndsWithMarker(text) THEN 20 ELSE 100
      p3 == IF HasVerbs(text) THEN 100 ELSE 70
      p4 == IF 2 * Len(long_words) < Len(words) THEN 50 ELSE 100
  IN  ((((((((ScoreOne * p1) \div 100) * p2) \div 100) * p3) \div 100) * p4)
         \div 100)

\* C16: _validate_meaningfulness returns FAILED with score 0 for a text of
\* fewer than 5 words; otherwise the score is the product of the penalties
\* 0.3 (no proper ending), 0.2 (incomplete marker), 0.7 (no verb) and 0.5
\* (fewer than half of the words meaningful), and the status is FAILED below
\* 0.5, WARNING below 0.8 and PASSED otherwise; so a text without a proper
\* ending or with a marker is FAILED
C16_MeaningfulnessStage ==
  Len(results) >= 2 =>
    IF Len(SplitWords(MeaningInput)) < 5
    THEN results[2].status = "failed" /\ results[2].score = 0
    ELSE /\ results[2].score = PenaltyProduct(MeaningInput)
         /\ results[2].status = "failed" <=> results[2].score < 50000
         /\ results[2].status = "warning" <=>
              (50000 <= results[2].score /\ results[2].score < 80000)
         /\ results[2].status = "passed" <=> results[2].score >= 80000
         /\ (\/ MeaningInput = <<>>
             \/ Last(MeaningInput).c \notin {"dot", "excl", "qm", "ell", "dq", "sq"}
             \/ EndsWithMarker(MeaningInput))
              => results[2].status = "failed"

\* a text got WARNING for its lack of meaningful words alone, with score 0.5
C16_Witness ==
  /\ Len(results) >= 2
  /\ results[2].status = "warning"
  /\ results[2].score = 50000
  /\ HasVerbs(MeaningInput)

\* the meta dict of the input record
InputMeta == Get(quote_data, "meta", EmptyDict)

\* C17: in every record get_validated_quote returns, quote and translated
\* are the text of the threads_optimization stage, meta.final_length is its
\* length, meta.validation_score the score of the final_quality stage,
\* meta.validated and meta.threads_ready are True, and meta.validation_stages
\* has exactly the four stages as keys, none with status failed
C17_ReturnedRecord ==
  (pc = "done" /\ returned # None) =>
    /\ Len(results) = 4
    /\ results[3].stage = "threads_optimization"
    /\ results[4].stage = "final_quality"
    /\ returned.quote = results[3].quote
    /\ returned.translated = results[3].quote
    /\ returned.meta.final_length = StrLen(results[3].quote)
    /\ returned.meta.validation_score = results[4].score
    /\ returned.meta.validated = TRUE
    /\ returned.meta.threads_ready = TRUE
    /\ DOMAIN returned.meta.validation_stages =
         {"basic", "meaningfulness", "threads_optimization", "final_quality"}
    /\ \A stage \in DOMAIN returned.meta.validation_stages :
         returned.meta.validation_stages[stage].status # "failed"

\* a record came back whose input held another translated text, or a meta
\* with validated False, and whose quote was cut
C17_Witness ==
  /\ pc = "done"
  /\ returned # None
  /\ returned.quote # Strip(InputQuote)
  /\ \/ "translated" \in DOMAIN quote_data
     \/ "validated" \in DOMAIN InputMeta

\* the returned record holds every other field of the input and every other
\* key of its meta with the input's value
C18_CarriesOver ==
  (pc = "done" /\ returned # None) =>
    /\ \A k \in DOMAIN quote_data \ {"quote", "translated", "meta"} :
         k \in DOMAIN returned /\ returned[k] = quote_data[k]
    /\ \A k \in DOMAIN InputMeta \
                  {"validated", "validation_score", "threads_ready",
                   "final_length", "validation_stages"} :
         k \in DOMAIN returned.meta /\ returned.meta[k] = InputMeta[k]

\* C18: get_validated_quote and validate_full_pipeline leave the input record
\* as it is, and the returned record carries over every input field other
\* than quote, translated and meta, and every input meta key other than
\* validated, validation_score, threads_ready, final_length and
\* validation_stages
C18_InputUntouched == [][quote_data' = quote_data]_vars /\ []C18_CarriesOver

\* a record came back for an input with fields and meta keys of its own
C18_Witness ==
  /\ pc = "done"
  /\ returned # None
  /\ "style" \in DOMAIN returned
  /\ "sentiment" \in DOMAIN returned.meta
  /\ returned.meta.validated = TRUE
  /\ InputMeta.validated = FALSE

(***************************************************************************)
(* refine_quotes, batch by batch                                           *)
(***************************************************************************)
Running == [running |-> TRUE]

Returned(v) == [value |-> v]

Raised(e) == [raised |-> e]

\* OutPath that takes the input path whatever the output path is
OutPath_AlwaysInput(args) == args.input

\* out = Path(output_json_path) if output_json_path else src
OutPath(args) == IF args.output # "" THEN args.output ELSE args.input

\* book = payload.get("book") if isinstance(payload, dict) else src.stem,
\* then str(book or "")
BookOf(payload, src) ==
  IF payload.kind = "dict" THEN Get(payload.value, "book", "") ELSE Stem(src)

\* batch = quotes[i : i + batch_size]
Batch == Slice(quotes, rq_i, rq_args.batch_size)

InitRefine ==
  /\ env \in Environments
  /\ rq_args \in [input : {"in.json"}, output : {"", "out.json"},
                  batch_size : {1, 30}]
  /\ \E content \in {Missing} \cup InputPayloads :
       files = [p \in Paths |-> IF p = "in.json" THEN content ELSE Missing]
  /\ rq_pc = "start"
  /\ quotes = <<>>
  /\ rq_i = 0
  /\ refined_all = <<>>
  /\ taken = "none"
  /\ candidates = <<>>
  /\ refined = <<>>
  /\ rq_ret = Running
  /\ ValidatorIdle
  /\ ExtractIdle
  /\ HarvestIdle
  /\ DeepIdle
  /\ PublishIdle
  /\ ImproveIdle
  /\ ThreadsIdle

\* if not src.exists(): raise FileNotFoundError
RefineMissing ==
  /\ rq_pc = "start"
  /\ files[rq_args.input] = Missing
  /\ rq_ret' = Raised("FileNotFoundError")
  /\ rq_pc' = "done"
  /\ UNCHANGED <<files, env, rq_args, quotes, rq_i, refined_all, taken,
                 candidates, refined>>
  /\ UNCHANGED outsideRefine

\* if not quotes: an empty list is saved
RefineEmpty ==
  /\ rq_pc = "start"
  /\ files[rq_args.input] # Missing
  /\ load_quotes(files[rq_args.input]) = <<>>
  /\ files' = [files EXCEPT ![OutPath(rq_args)] =
                 save_quotes(BookOf(files[rq_args.input], rq_args.input), <<>>)]
  /\ rq_ret' = Returned(OutPath(rq_args))
  /\ rq_pc' = "done"
  /\ UNCHANGED <<env, rq_args, quotes, rq_i, refined_all, taken, candidates,
                 refined>>
  /\ UNCHANGED outsideRefine

\* quotes = _load_quotes(payload), and the loop starts
RefineLoad ==
  /\ rq_pc = "start"
  /\ files[rq_args.input] # Missing
  /\ load_quotes(files[rq_args.input]) # <<>>
  /\ quotes' = load_quotes(files[rq_args.input])
  /\ rq_i' = 0
  /\ refined_all' = <<>>
  /\ rq_pc' = "loop"
  /\ UNCHANGED <<files, env, rq_args, taken, candidates, refined, rq_ret>>
  /\ UNCHANGED outsideRefine

\* _refine_batch is entered with the next batch and takes the branch named
\* branch, which hands items to _local_polish
EnterBranch(branch, items) ==
  /\ rq_pc = "loop"
  /\ rq_i < Len(quotes)
  /\ taken' = branch
  /\ candidates' = items
  /\ rq_pc' = "polish"
  /\ UNCHANGED <<files, env, rq_args, quotes, rq_i, refined_all, refined,
                 rq_ret>>
  /\ UNCHANGED outsideRefine

\* Claude is available and answers
ClaudeOk ==
  /\ env.claude
  /\ \E reply \in Replies :
       EnterBranch("claude_ok", claude_refine_quotes(Batch, reply))

\* Claude is available and the call raises
ClaudeRaised ==
  /\ env.claude
  /\ EnterBranch("claude_raised", LocalCandidates(Batch))

\* no Claude and client is None
NoLLM ==
  /\ ~env.claude
  /\ ~env.openai
  /\ EnterBranch("no_llm", LocalCandidates(Batch))

\* no Claude, and OpenAI answers
OpenAIOk ==
  /\ ~env.claude
  /\ env.openai
  /\ \E reply \in Replies :
       EnterBranch("openai_ok", OpenAIMerged(Batch, reply))

\* no Claude, and the OpenAI call raises
OpenAIRaised ==
  /\ ~env.claude
  /\ env.openai
  /\ EnterBranch("openai_raised", Batch)

\* the loop over _local_polish of the branch taken
Polish ==
  /\ rq_pc = "polish"
  /\ refined' = PolishAll(candidates, RequiresQuote(taken))
  /\ rq_pc' = "polished"
  /\ UNCHANGED <<files, env, rq_args, quotes, rq_i, refined_all, taken,
                 candidates, rq_ret>>
  /\ UNCHANGED outsideRefine

\* "return result if result else [...]": nothing of Claude's answer was
\* valid, the batch itself is polished
ClaudeNothingValid ==
  /\ rq_pc = "polished"
  /\ taken = "claude_ok"
  /\ refined = <<>>
  /\ taken' = "claude_nothing_valid"
  /\ candidates' = LocalCandidates(Batch)
  /\ rq_pc' = "polish"
  /\ UNCHANGED <<files, env, rq_args, quotes, rq_i, refined_all, refined,
                 rq_ret>>
  /\ UNCHANGED outsideRefine

\* _refine_batch returns refined, and refine_quotes keeps what is engaging
BatchReturn ==
  /\ rq_pc = "polished"
  /\ ~(taken = "claude_ok" /\ refined = <<>>)
  /\ refined_all' = refined_all \o SelectSeq(refined, IsEngaging)
  /\ rq_i' = rq_i + rq_args.batch_size
  /\ rq_pc' = "loop"
  /\ UNCHANGED <<files, env, rq_args, quotes, taken, candidates, refined,
                 rq_ret>>
  /\ UNCHANGED outsideRefine

\* after the last batch: dedup, _save_quotes, return str(out)
RefineSave ==
  /\ rq_pc = "loop"
  /\ rq_i >= Len(quotes)
  /\ files' = [files EXCEPT ![OutPath(rq_args)] =
                 save_quotes(BookOf(files[rq_args.input], rq_args.input),
                             Dedup(refined_all))]
  /\ rq_ret' = Returned(OutPath(rq_args))
  /\ rq_pc' = "done"
  /\ UNCHANGED <<env, rq_args, quotes, rq_i, refined_all, taken, candidates,
                 refined>>
  /\ UNCHANGED outsideRefine

NextRefine ==
  \/ RefineMissing
  \/ RefineEmpty
  \/ RefineLoad
  \/ ClaudeOk
  \/ ClaudeRaised
  \/ NoLLM
  \/ OpenAIOk
  \/ OpenAIRaised
  \/ Polish
  \/ ClaudeNothingValid
  \/ BatchReturn
  \/ RefineSave

SpecRefine == InitRefine /\ [][NextRefine]_vars

(***************************************************************************)
(* Claims about refining                                                   *)
(***************************************************************************)
\* the fields a passing run of the validator and _local_polish leave
IsValidatedItem(it) ==
  /\ Get(Get(it, "meta", EmptyDict), "validated", FALSE) = TRUE
  /\ Get(Get(it, "meta", EmptyDict), "threads_ready", FALSE) = TRUE
  /\ Get(it, "engaging", FALSE) = TRUE
  /\ StrLen(Get(it, "quote", <<>>)) <= THREADS_MAX_LENGTH
  /\ Get(Get(it, "meta", EmptyDict), "length", -1) = StrLen(Get(it, "quote", <<>>))

\* C5: in every provider branch, every item _refine_batch returns has passed
\* the validator: meta.validated and meta.threads_ready are True, engaging is
\* True, the quote has at most 500 characters and meta.length is its length
C5_RefinedItemsAreValidated ==
  \A j \in 1..Len(refined) : IsValidatedItem(refined[j])

\* OpenAI answered, and of the objects polished one was rejected and one, cut
\* down from more than 500 characters, was returned
C5_Witness ==
  /\ rq_pc = "polished"
  /\ taken = "openai_ok"
  /\ Len(refined) < Len(candidates)
  /\ \E j \in 1..Len(candidates) :
       StrLen(Get(candidates[j], "quote", <<>>)) > THREADS_MAX_LENGTH
  /\ \E j \in 1..Len(refined) : refined[j].quote = Saying

\* what refine_quotes wrote
SavedQuotes == files[OutPath(rq_args)].value.quotes

\* index j of refined_all is the first one with its stripped quote text
IsFirstOccurrence(j) ==
  \A m \in 1..(j - 1) :
     Strip(refined_all[m].quote) # Strip(refined_all[j].quote)

\* C9: the list refine_quotes saves holds only records with engaging True and
\* a non-empty quote, pairwise distinct by stripped quote text, in the order
\* in which the batches, taken in input order, first produced each text
C9_SavedListIsDeduplicated ==
  (rq_pc = "done" /\ rq_ret = Returned(OutPath(rq_args))) =>
    /\ \A j \in 1..Len(SavedQuotes) :
         /\ SavedQuotes[j].engaging = TRUE
         /\ Get(SavedQuotes[j], "quote", <<>>) # <<>>
    /\ \A j, m \in 1..Len(SavedQuotes) :
         j # m => Strip(SavedQuotes[j].quote) # Strip(SavedQuotes[m].quote)
    /\ \E at \in [1..Len(SavedQuotes) -> 1..Len(refined_all)] :
         /\ \A j \in 1..Len(SavedQuotes) :
              /\ SavedQuotes[j] = refined_all[at[j]]
              /\ IsFirstOccurrence(at[j])
         /\ \A j, m \in 1..Len(SavedQuotes) : j < m => at[j] < at[m]
         /\ \A m \in 1..Len(refined_all) :
              IsFirstOccurrence(m) => \E j \in 1..Len(SavedQuotes) : at[j] = m

\* two batches produced the same text, and the saved list holds it once
C9_Witness ==
  /\ rq_pc = "done"
  /\ rq_ret = Returned(OutPath(rq_args))
  /\ rq_i > rq_args.batch_size
  /\ Len(SavedQuotes) >= 1
  /\ Len(SavedQuotes) < Len(refined_all)

(***************************************************************************)
(* extract_smart_quotes, paragraph by paragraph                            *)
(***************************************************************************)
\* the paragraph the loop of extract_smart_quotes stands at
Paragraphs == ParagraphsOf(text_chunks, page_numbers)

\* what _analyze_quote_quality may get for quote: an answer of GPT, an answer
\* of Claude (which is not asked about a blank quote), or none
Answers(quote) ==
  IF env.openai \/ (env.claude /\ Strip(quote) # <<>>)
  THEN QualityAnswers \cup {NoAnswer} ELSE {NoAnswer}

InitExtract ==
  /\ env \in Environments
  /\ files = [p \in Paths |-> Missing]
  /\ text_chunks \in ChunkLists
  /\ page_numbers = [j \in 1..Len(text_chunks) |-> j]
  /\ ex_pc = "loop"
  /\ ex_n = 1
  /\ all_quotes = <<>>
  /\ analyses = <<>>
  /\ unique_quotes = <<>>
  /\ ValidatorIdle
  /\ RefineIdle
  /\ HarvestIdle
  /\ DeepIdle
  /\ PublishIdle
  /\ ImproveIdle
  /\ ThreadsIdle

\* "if not paragraph.strip(): continue"
ExtractBlank ==
  /\ ex_pc = "loop"
  /\ ex_n <= Len(Paragraphs)
  /\ Strip(Paragraphs[ex_n].paragraph) = <<>>
  /\ ex_n' = ex_n + 1
  /\ UNCHANGED <<ex_pc, text_chunks, page_numbers, all_quotes, analyses,
                 unique_quotes>>
  /\ UNCHANGED outsideExtract

\* one paragraph: analyze_paragraph, and the quotes of its EXCELLENT and GOOD
\* analyses are appended
ExtractParagraph ==
  /\ ex_pc = "loop"
  /\ ex_n <= Len(Paragraphs)
  /\ Strip(Paragraphs[ex_n].paragraph) # <<>>
  /\ \E order \in Orders(extract_quote_candidates(
                           CleanParagraph(Paragraphs[ex_n].paragraph))) :
       \E answers \in [1..Len(order) -> QualityAnswers \cup {NoAnswer}] :
          /\ \A j \in 1..Len(order) : answers[j] \in Answers(order[j])
          /\ analyses' = analyze_paragraph(Paragraphs[ex_n].paragraph, order,
                                           answers)
          /\ all_quotes' = all_quotes \o
               AcceptedQuotes(analyses', Paragraphs[ex_n].paragraph,
                              Paragraphs[ex_n].page)
  /\ ex_n' = ex_n + 1
  /\ UNCHANGED <<ex_pc, text_chunks, page_numbers, unique_quotes>>
  /\ UNCHANGED outsideExtract

\* after the last paragraph: sort, drop the duplicates, return
ExtractFinish ==
  /\ ex_pc = "loop"
  /\ ex_n > Len(Paragraphs)
  /\ unique_quotes' = UniqueQuotes(all_quotes)
  /\ ex_pc' = "done"
  /\ UNCHANGED <<text_chunks, page_numbers, ex_n, all_quotes, analyses>>
  /\ UNCHANGED outsideExtract

NextExtract ==
  \/ ExtractBlank
  \/ ExtractParagraph
  \/ ExtractFinish

SpecExtract == InitExtract /\ [][NextExtract]_vars

(***************************************************************************)
(* Claims about extract_smart_quotes                                       *)
(***************************************************************************)
\* what extract_smart_quotes returns is in order of confidence and without
\* duplicates, and of each text it holds the entry of highest confidence
C8_SortedAndUnique ==
  ex_pc = "done" =>
    /\ \A j \in 1..(Len(unique_quotes) - 1) :
         unique_quotes[j].meta.confidence >= unique_quotes[j + 1].meta.confidence
    /\ \A j, k \in 1..Len(unique_quotes) :
         j # k => Strip(unique_quotes[j].quote) # Strip(unique_quotes[k].quote)
    /\ \A j \in 1..Len(unique_quotes) :
         \E k \in 1..Len(all_quotes) : unique_quotes[j] = all_quotes[k]
    /\ \A k \in 1..Len(all_quotes) :
         \E j \in 1..Len(unique_quotes) :
            /\ Strip(unique_quotes[j].quote) = Strip(all_quotes[k].quote)
            /\ unique_quotes[j].meta.confidence >= all_quotes[k].meta.confidence

\* the quotes a paragraph adds are those of its EXCELLENT and GOOD analyses,
\* engaging for the EXCELLENT ones only
C8_AcceptedOnly ==
  (ex_pc = "loop" /\ ex_n' = ex_n + 1
     /\ Strip(Paragraphs[ex_n].paragraph) # <<>>) =>
    LET added == SubSeq(all_quotes', Len(all_quotes) + 1, Len(all_quotes'))
        accepted == SelectSeq(analyses',
                              LAMBDA a : a.quality \in {"excellent", "good"})
    IN  /\ Len(all_quotes') >= Len(all_quotes)
        /\ SubSeq(all_quotes', 1, Len(all_quotes)) = all_quotes
        /\ Len(added) = Len(accepted)
        /\ \A j \in 1..Len(added) :
             /\ added[j].quote = accepted[j].text
             /\ added[j].meta.confidence = accepted[j].confidence
             /\ added[j].engaging = (accepted[j].quality = "excellent")

\* C8: extract_smart_quotes returns only quotes whose analysis is EXCELLENT
\* or GOOD, in order of non-increasing meta.confidence, no two with the same
\* stripped text, of each text the entry of highest confidence, and engaging
\* is True exactly for the EXCELLENT ones
C8_SmartQuotes == []C8_SortedAndUnique /\ [][C8_AcceptedOnly]_vars

\* a text was found twice with different confidence, and the result holds
\* an engaging quote before one that is not
C8_Witness ==
  /\ ex_pc = "done"
  /\ Len(unique_quotes) >= 2
  /\ \E j, k \in 1..Len(all_quotes) :
       /\ j < k
       /\ Strip(all_quotes[j].quote) = Strip(all_quotes[k].quote)
       /\ all_quotes[j].meta.confidence < all_quotes[k].meta.confidence
  /\ \E j, k \in 1..Len(unique_quotes) :
       /\ j < k
       /\ unique_quotes[j].engaging
       /\ ~unique_quotes[k].engaging

(***************************************************************************)
(* harvest_all_from_pdf                                                    *)
(***************************************************************************)
\* out of harvest_all_from_pdf: output_json_path, or the file named after
\* the book in data/quotes
HarvestOut(args) ==
  IF args.output # "" THEN args.output ELSE QuotesFile(Stem(args.pdf_path))

\* the chunks the fallback loop goes through
Chunks == FallbackChunks(pages, hv_args.max_sentences)

InitHarvest ==
  /\ env \in Environments
  /\ hv_args \in [pdf_path : {"book.pdf"}, output : {"", "out.json"},
                  max_sentences : {5}]
  /\ \E content \in {Missing} \cup
                      {PdfFile(ps) : ps \in SeqsUpTo(PageLibrary, MaxPages)} :
       files = [p \in Paths |-> IF p = "book.pdf" THEN content ELSE Missing]
  /\ hv_pc = "start"
  /\ pages = <<>>
  /\ hv_n = 1
  /\ hv_objs = <<>>
  /\ collected = <<>>
  /\ hv_ret = Running
  /\ ExtractIdle
  /\ ValidatorIdle
  /\ RefineIdle
  /\ DeepIdle
  /\ PublishIdle
  /\ ImproveIdle
  /\ ThreadsIdle

\* extract_pages_from_pdf raises: there is no such PDF
HarvestUnreadable ==
  /\ hv_pc = "start"
  /\ files[hv_args.pdf_path] = Missing
  /\ hv_ret' = Raised("Exception")
  /\ hv_pc' = "done"
  /\ UNCHANGED <<hv_args, pages, hv_n, hv_objs, collected>>
  /\ UNCHANGED <<worldVars, extractVars, outsideHarvest>>

\* the pages are read, cut into text_chunks, and extract_smart_quotes is
\* called
HarvestStart ==
  /\ hv_pc = "start"
  /\ files[hv_args.pdf_path] # Missing
  /\ pages' = files[hv_args.pdf_path].value
  /\ text_chunks' = [j \in 1..Len(TextChunks(pages')) |->
                       TextChunks(pages')[j].chunk]
  /\ page_numbers' = [j \in 1..Len(TextChunks(pages')) |->
                        TextChunks(pages')[j].page]
  /\ ex_pc' = "loop"
  /\ ex_n' = 1
  /\ all_quotes' = <<>>
  /\ hv_pc' = "smart"
  /\ UNCHANGED <<hv_args, hv_n, hv_objs, collected, hv_ret, analyses,
                 unique_quotes>>
  /\ UNCHANGED <<worldVars, outsideHarvest>>

\* the smart extractor found quotes: they are saved
HarvestSaveSmart ==
  /\ hv_pc = "smart"
  /\ ex_pc = "done"
  /\ unique_quotes # <<>>
  /\ collected' = unique_quotes
  /\ files' = [files EXCEPT ![HarvestOut(hv_args)] =
                 save_quotes(Stem(hv_args.pdf_path), unique_quotes)]
  /\ hv_ret' = Returned(HarvestOut(hv_args))
  /\ hv_pc' = "done"
  /\ UNCHANGED <<hv_args, pages, hv_n, hv_objs>>
  /\ UNCHANGED <<env, extractVars, outsideHarvest>>

\* "if not collected": the fallback loop over the chunks of the pages starts
HarvestFallback ==
  /\ hv_pc = "smart"
  /\ ex_pc = "done"
  /\ unique_quotes = <<>>
  /\ collected' = <<>>
  /\ hv_n' = 1
  /\ hv_pc' = "chunks"
  /\ UNCHANGED <<hv_args, pages, hv_objs, hv_ret>>
  /\ UNCHANGED <<worldVars, extractVars, outsideHarvest>>

\* _extract_engaging_from_chunk is entered with the next chunk, and an LLM
\* answers with objects that the validator is to see
AskLLM(objs) ==
  /\ hv_pc = "chunks"
  /\ hv_n <= Len(Chunks)
  /\ hv_objs' = objs
  /\ hv_pc' = "validate"
  /\ UNCHANGED <<hv_args, pages, hv_n, collected, hv_ret>>
  /\ UNCHANGED <<worldVars, extractVars, outsideHarvest>>

\* Claude answers with a list that is not empty: claude_extract_from_chunk
\* returns its first two objects
ChunkClaude ==
  /\ env.claude
  /\ \E reply \in Replies \ {<<>>} : AskLLM(FirstN(reply, 2))

\* Claude is not there, raised or found nothing, and OpenAI answers
ChunkOpenAI ==
  /\ env.openai
  /\ \E reply \in Replies : AskLLM(reply)

\* Claude is not there, raised or found nothing, and client is None or the
\* call of OpenAI raises: heuristic_candidates, whose items are collected
ChunkHeuristic ==
  /\ hv_pc = "chunks"
  /\ hv_n <= Len(Chunks)
  /\ collected' = collected \o
       WithPage(heuristic_candidates(Chunks[hv_n].chunk), Chunks[hv_n].page)
  /\ hv_n' = hv_n + 1
  /\ UNCHANGED <<hv_args, pages, hv_objs, hv_pc, hv_ret>>
  /\ UNCHANGED <<worldVars, extractVars, outsideHarvest>>

\* the objects go through the validator, cleaned[:2] is returned and its
\* items are collected
ChunkValidate ==
  /\ hv_pc = "validate"
  /\ collected' = collected \o
       WithPage(FirstN(ValidateObjects(hv_objs, Chunks[hv_n].chunk), 2),
                Chunks[hv_n].page)
  /\ hv_n' = hv_n + 1
  /\ hv_pc' = "chunks"
  /\ UNCHANGED <<hv_args, pages, hv_objs, hv_ret>>
  /\ UNCHANGED <<worldVars, extractVars, outsideHarvest>>

\* after the last chunk: what was collected is saved
HarvestSaveFallback ==
  /\ hv_pc = "chunks"
  /\ hv_n > Len(Chunks)
  /\ files' = [files EXCEPT ![HarvestOut(hv_args)] =
                 save_quotes(Stem(hv_args.pdf_path), collected)]
  /\ hv_ret' = Returned(HarvestOut(hv_args))
  /\ hv_pc' = "done"
  /\ UNCHANGED <<hv_args, pages, hv_n, hv_objs, collected>>
  /\ UNCHANGED <<env, extractVars, outsideHarvest>>

\* (no text chunk of harvest_all_from_pdf is blank: each has more than 100
\* characters beside its white space)
NextHarvest ==
  \/ HarvestUnreadable
  \/ HarvestStart
  \/ ExtractParagraph
  \/ ExtractFinish
  \/ HarvestSaveSmart
  \/ HarvestFallback
  \/ ChunkClaude
  \/ ChunkOpenAI
  \/ ChunkHeuristic
  \/ ChunkValidate
  \/ HarvestSaveFallback

SpecHarvest == InitHarvest /\ [][NextHarvest]_vars

(***************************************************************************)
(* Claims about harvest_all_from_pdf                                       *)
(***************************************************************************)
\* harvest_all_from_pdf has returned, and these are the quotes it saved
HarvestSaved == hv_pc = "done" /\ hv_ret = Returned(HarvestOut(hv_args))

HarvestedQuotes == files[HarvestOut(hv_args)].value.quotes

\* the record carries the mark a passing run of get_validated_quote leaves,
\* or it is at least a record that get_validated_quote lets pass
PassedValidation(it) ==
  \/ /\ Get(Get(it, "meta", EmptyDict), "validated", FALSE) = TRUE
     /\ Get(Get(it, "meta", EmptyDict), "threads_ready", FALSE) = TRUE
  \/ get_validated_quote(it) # None

\* C4: every quote harvest_all_from_pdf saves has passed the multi-stage
\* validation, on the smart-extractor path and on the fallback path
C4_SavedQuotesPassedValidation ==
  HarvestSaved =>
    \A j \in 1..Len(HarvestedQuotes) : PassedValidation(HarvestedQuotes[j])

\* C7: the list harvest_all_from_pdf saves holds no two entries with the
\* same stripped quote text, on the smart-extractor path and on the
\* fallback path
C7_SavedQuotesAreDistinct ==
  HarvestSaved =>
    \A j, k \in 1..Len(HarvestedQuotes) :
       j # k => Strip(HarvestedQuotes[j].quote) # Strip(HarvestedQuotes[k].quote)

(***************************************************************************)
(* deep_scan_with_gemini                                                   *)
(***************************************************************************)
\* out_path of extract_from_pdf_deep_scan
DeepOut(args) ==
  IF args.output # "" THEN args.output ELSE DeepFile(Stem(args.pdf_path))

\* the except clause of deep_scan_with_gemini that lets the exception go
Caught_Propagates(e) == Raised(e)

\* the except clause of deep_scan_with_gemini: 'return ""'
Caught(e) == Returned("")

InitDeepScan ==
  /\ gemini_key \in BOOLEAN
  /\ ds_args \in [pdf_path : {"book.pdf"}, output : {"", "out.json"}]
  /\ env = [claude |-> FALSE, openai |-> FALSE]
  /\ \E content \in {Missing} \cup
                      {PdfFile(ps) : ps \in SeqsUpTo(PageLibrary, MaxPages)} :
       files = [p \in Paths |-> IF p = "book.pdf" THEN content ELSE Missing]
  /\ ds_pc = "start"
  /\ ds_pages = <<>>
  /\ ds_quotes = <<>>
  /\ ds_event = "none"
  /\ ds_ret = Running
  /\ PublishIdle
  /\ HarvestIdle
  /\ ExtractIdle
  /\ ValidatorIdle
  /\ RefineIdle
  /\ ImproveIdle
  /\ ThreadsIdle

\* the call ends with what caught the exception e, after event
DeepScanFails(event, e) ==
  /\ ds_event' = event
  /\ ds_ret' = Caught(e)
  /\ ds_pc' = "done"
  /\ UNCHANGED <<ds_args, gemini_key, ds_pages, ds_quotes>>

\* GeminiDeepExtractor() raises ValueError: there is no API key
DeepScanNoKey ==
  /\ ds_pc = "start"
  /\ ~gemini_key
  /\ DeepScanFails("no_key", "ValueError")
  /\ UNCHANGED <<worldVars, outsideDeep>>

\* extract_pages_from_pdf raises: there is no such PDF
DeepScanUnreadable ==
  /\ ds_pc = "start"
  /\ gemini_key
  /\ files[ds_args.pdf_path] = Missing
  /\ DeepScanFails("pdf_error", "Exception")
  /\ UNCHANGED <<worldVars, outsideDeep>>

\* the pages are read
DeepScanRead ==
  /\ ds_pc = "start"
  /\ gemini_key
  /\ files[ds_args.pdf_path] # Missing
  /\ ds_pages' = files[ds_args.pdf_path].value
  /\ ds_pc' = "ask"
  /\ UNCHANGED <<ds_args, gemini_key, ds_quotes, ds_event, ds_ret>>
  /\ UNCHANGED <<worldVars, outsideDeep>>

\* extract_all_insights_from_text returns no quote (the call of Gemini
\* raised, its answer was no JSON, or no quote of it has 30 to 500
\* characters): 'return ""'
DeepScanNoQuotes ==
  /\ ds_pc = "ask"
  /\ \E outcome \in GeminiOutcomes :
       /\ extract_all_insights_from_text(outcome) = <<>>
       /\ ds_event' = (IF outcome.kind = "json" THEN "no_quotes"
                       ELSE "llm_error")
  /\ ds_ret' = Returned("")
  /\ ds_pc' = "done"
  /\ UNCHANGED <<ds_args, gemini_key, ds_pages, ds_quotes>>
  /\ UNCHANGED <<worldVars, outsideDeep>>

\* extract_all_insights_from_text returns quotes
DeepScanQuotes ==
  /\ ds_pc = "ask"
  /\ \E outcome \in GeminiOutcomes :
       /\ extract_all_insights_from_text(outcome) # <<>>
       /\ ds_quotes' = extract_all_insights_from_text(outcome)
  /\ ds_pc' = "save"
  /\ UNCHANGED <<ds_args, gemini_key, ds_pages, ds_event, ds_ret>>
  /\ UNCHANGED <<worldVars, outsideDeep>>

\* mkdir or open raises (nothing is written), or json.dump raises (the file
\* is there, unfinished)
DeepScanWriteFails ==
  /\ ds_pc = "save"
  /\ \/ UNCHANGED files
     \/ files' = [files EXCEPT ![DeepOut(ds_args)] = PartialFile]
  /\ DeepScanFails("write_error", "OSError")
  /\ UNCHANGED <<env, outsideDeep>>

\* the payload is written and the path is returned
DeepScanWrite ==
  /\ ds_pc = "save"
  /\ files' = [files EXCEPT ![DeepOut(ds_args)] =
                 DeepPayload(Stem(ds_args.pdf_path), ds_pages, ds_quotes)]
  /\ ds_event' = "written"
  /\ ds_ret' = Returned(DeepOut(ds_args))
  /\ ds_pc' = "done"
  /\ UNCHANGED <<ds_args, gemini_key, ds_pages, ds_quotes>>
  /\ UNCHANGED <<env, outsideDeep>>

NextDeepScan ==
  \/ DeepScanNoKey
  \/ DeepScanUnreadable
  \/ DeepScanRead
  \/ DeepScanNoQuotes
  \/ DeepScanQuotes
  \/ DeepScanWriteFails
  \/ DeepScanWrite

SpecDeepScan == InitDeepScan /\ [][NextDeepScan]_vars

(***************************************************************************)
(* Claims about deep_scan_with_gemini                                      *)
(***************************************************************************)
\* the file at path holds a finished payload with quotes
IsResultsFile(path) ==
  /\ path \in Paths
  /\ files[path] # Missing
  /\ files[path].kind = "dict"
  /\ files[path].value.quotes # <<>>
  /\ files[path].value.total_quotes = Len(files[path].value.quotes)

\* C10: deep_scan_with_gemini never propagates an exception: after a missing
\* API key, a PDF that cannot be read, a failed call of Gemini or an answer
\* that is no JSON, a failed write, and when no quote was extracted, it
\* returns the empty string, and it returns a path that is not empty only
\* after the results file has been written at that path
C10_DeepScanNeverRaises ==
  ds_pc = "done" =>
    /\ "raised" \notin DOMAIN ds_ret
    /\ "value" \in DOMAIN ds_ret
    /\ ds_event \in {"no_key", "pdf_error", "llm_error", "no_quotes",
                     "write_error"} => ds_ret = Returned("")
    /\ ds_ret # Returned("") =>
         /\ ds_event = "written"
         /\ IsResultsFile(ds_ret.value)

\* a write failed after the file was created: the call returned "" and the
\* file is there, unfinished
C10_Witness ==
  /\ ds_pc = "done"
  /\ ds_event = "write_error"
  /\ ds_ret = Returned("")
  /\ files[DeepOut(ds_args)] = PartialFile

(***************************************************************************)
(* The publish button of app.py and the table quotes                       *)
(***************************************************************************)
InitPublish ==
  /\ creds \in Credentials
  /\ filtered \in SeqsUpTo(ShownItems, MaxShown)
  /\ rows = <<>>
  /\ threads_posts = <<>>
  /\ pb_msg = "none"
  /\ WorldIdle
  /\ DeepIdle
  /\ HarvestIdle
  /\ ExtractIdle
  /\ ValidatorIdle
  /\ RefineIdle
  /\ ImproveIdle
  /\ ThreadsIdle

\* migrate_json_file: a row for each quote of the file the page shows
Migrate ==
  /\ rows = <<>>
  /\ filtered # <<>>
  /\ rows' = AddQuotes(rows, filtered)
  /\ UNCHANGED <<creds, filtered, threads_posts, pb_msg>>
  /\ UNCHANGED outsidePublish

\* QuotesDatabase.mark_as_published, which no code of the repository calls
MarkAsPublished ==
  /\ \E quote_id \in 1..Len(rows) :
       /\ rows[quote_id].published = FALSE
       /\ rows' = mark_as_published(rows, quote_id)
  /\ UNCHANGED <<creds, filtered, threads_posts, pb_msg>>
  /\ UNCHANGED outsidePublish

\* the button is pressed and no method of publishing is configured
PublishNotConfigured ==
  /\ ~creds.official
  /\ ~creds.threads_api
  /\ pb_msg' = "not_configured"
  /\ UNCHANGED <<creds, filtered, rows, threads_posts>>
  /\ UNCHANGED outsidePublish

\* the button is pressed and there is no text to publish
PublishNothing ==
  /\ creds.official \/ creds.threads_api
  /\ Selected(filtered) = <<>>
  /\ pb_msg' = "no_quotes"
  /\ UNCHANGED <<creds, filtered, rows, threads_posts>>
  /\ UNCHANGED outsidePublish

\* the handler with a text to publish, when Threads answers ok to method
Publish(method, ok) ==
  /\ Selected(filtered) # <<>>
  /\ Len(threads_posts) < MaxPosts
  /\ threads_posts' =
       IF ok THEN Append(threads_posts, [caption |-> Selected(filtered),
                                         item |-> SelectedItem(filtered)])
       ELSE threads_posts
  /\ pb_msg' = IF ok THEN method ELSE "failed"
  /\ UNCHANGED <<creds, filtered, rows>>
  /\ UNCHANGED outsidePublish

\* publish_to_threads returns True: the post is on Threads
PublishOfficial ==
  /\ creds.official
  /\ Publish("official", TRUE)

\* publish_to_threads_api returns True: the post is on Threads
PublishThreadsApi ==
  /\ ~creds.official
  /\ creds.threads_api
  /\ Publish("threads_api", TRUE)

\* publish_to_threads or publish_to_threads_api returns False
PublishFailed ==
  /\ creds.official \/ creds.threads_api
  /\ Publish("none", FALSE)

NextPublish ==
  \/ Migrate
  \/ MarkAsPublished
  \/ PublishNotConfigured
  \/ PublishNothing
  \/ PublishOfficial
  \/ PublishThreadsApi
  \/ PublishFailed

SpecPublish == InitPublish /\ [][NextPublish]_vars

(***************************************************************************)
(* Claims about publishing                                                 *)
(***************************************************************************)
\* a step in which a post reaches Threads
Posted == Len(threads_posts') > Len(threads_posts)

\* the stored row of the quote that was posted last is marked in table
IsMarked(table, post) ==
  \A j \in 1..Len(table) :
     table[j].id = post.item =>
       /\ table[j].published = TRUE
       /\ table[j].published_at # Null
       /\ table[j] \notin get_quotes(table, FALSE, TRUE)

\* C6: after a publish action for a quote succeeds against Threads, the
\* stored record of that quote is marked as published (published set and
\* published_at stamped), so that it is no longer among the unpublished ones
C6_PublishMarksTheQuote ==
  [][Posted => IsMarked(rows', threads_posts'[Len(threads_posts')])]_vars

\* C20: every text handed to a Threads publish call has at most 500
\* characters: the main app publishes only a quote that fits the limit of
\* 500 characters it displays
C20_PublishedTextFits ==
  \A j \in 1..Len(threads_posts) :
     StrLen(threads_posts[j].caption) <= THREADS_MAX_LENGTH

(***************************************************************************)
(* improve_existing_quotes, quote by quote                                 *)
(***************************************************************************)
\* one more answer an LLM may give about a quote
GoodAnswer == [quality |-> "good", confidence |-> 700]

\* what _analyze_quote_quality may get for quote during an improvement
ImproveAnswers(quote) ==
  IF Answers(quote) = {NoAnswer} THEN {NoAnswer}
  ELSE Answers(quote) \cup {GoodAnswer}

\* what analyze_paragraph may return for paragraph: nothing when it is blank,
\* and otherwise what the order of its candidates and the answers about them
\* lead to
AnalysesOf(paragraph) ==
  IF Strip(paragraph) = <<>> THEN {<<>>}
  ELSE UNION {{analyze_paragraph(paragraph, order, answers) :
                 answers \in {a \in [1..Len(order) ->
                                       QualityAnswers
                                         \cup {NoAnswer, GoodAnswer}] :
                                \A j \in 1..Len(order) :
                                   a[j] \in ImproveAnswers(order[j])}} :
              order \in Orders(extract_quote_candidates(
                                 CleanParagraph(paragraph)))}

InitImprove ==
  /\ env \in Environments
  /\ im_args \in [input : {"in.json"}, output : {"", "out.json"}]
  /\ \E content \in {Missing} \cup ImprovePayloads :
       files = [p \in Paths |-> IF p = "in.json" THEN content ELSE Missing]
  /\ im_pc = "start"
  /\ im_quotes = <<>>
  /\ im_n = 1
  /\ improved_quotes = <<>>
  /\ im_analyses = <<>>
  /\ im_ret = Running
  /\ ValidatorIdle
  /\ RefineIdle
  /\ ExtractIdle
  /\ HarvestIdle
  /\ DeepIdle
  /\ PublishIdle
  /\ ThreadsIdle

\* if not src.exists(): raise FileNotFoundError
ImproveMissing ==
  /\ im_pc = "start"
  /\ files[im_args.input] = Missing
  /\ im_ret' = Raised("FileNotFoundError")
  /\ im_pc' = "done"
  /\ UNCHANGED <<files, env, im_args, im_quotes, im_n, improved_quotes,
                 im_analyses>>
  /\ UNCHANGED outsideImprove

\* if not quotes: an empty list is saved
ImproveEmpty ==
  /\ im_pc = "start"
  /\ files[im_args.input] # Missing
  /\ load_quotes(files[im_args.input]) = <<>>
  /\ files' = [files EXCEPT ![OutPath(im_args)] =
                 save_quotes(BookOf(files[im_args.input], im_args.input), <<>>)]
  /\ im_ret' = Returned(OutPath(im_args))
  /\ im_pc' = "done"
  /\ UNCHANGED <<env, im_args, im_quotes, im_n, improved_quotes, im_analyses>>
  /\ UNCHANGED outsideImprove

\* quotes = _load_quotes(payload), and the loop starts
ImproveLoad ==
  /\ im_pc = "start"
  /\ files[im_args.input] # Missing
  /\ load_quotes(files[im_args.input]) # <<>>
  /\ im_quotes' = load_quotes(files[im_args.input])
  /\ im_n' = 1
  /\ improved_quotes' = <<>>
  /\ im_pc' = "loop"
  /\ UNCHANGED <<files, env, im_args, im_analyses, im_ret>>
  /\ UNCHANGED outsideImprove

\* "if not original_text or not current_quote: continue"
ImproveSkip ==
  /\ im_pc = "loop"
  /\ im_n <= Len(im_quotes)
  /\ ~IsImprovable(im_quotes[im_n])
  /\ im_n' = im_n + 1
  /\ UNCHANGED <<files, env, im_pc, im_args, im_quotes, improved_quotes,
                 im_analyses, im_ret>>
  /\ UNCHANGED outsideImprove

\* one quote: analyze_paragraph of its original, the best analysis, and the
\* record that is appended
ImproveQuote ==
  /\ im_pc = "loop"
  /\ im_n <= Len(im_quotes)
  /\ IsImprovable(im_quotes[im_n])
  /\ \E found \in AnalysesOf(im_quotes[im_n].original) :
       /\ im_analyses' = found
       /\ improved_quotes' =
            Append(improved_quotes, Improved(im_quotes[im_n], found))
  /\ im_n' = im_n + 1
  /\ UNCHANGED <<files, env, im_pc, im_args, im_quotes, im_ret>>
  /\ UNCHANGED outsideImprove

\* after the last quote: dedup, _save_quotes, return str(out)
ImproveSave ==
  /\ im_pc = "loop"
  /\ im_n > Len(im_quotes)
  /\ files' = [files EXCEPT ![OutPath(im_args)] =
                 save_quotes(BookOf(files[im_args.input], im_args.input),
                             UniqueImproved(improved_quotes))]
  /\ im_ret' = Returned(OutPath(im_args))
  /\ im_pc' = "done"
  /\ UNCHANGED <<env, im_args, im_quotes, im_n, improved_quotes, im_analyses>>
  /\ UNCHANGED outsideImprove

NextImprove ==
  \/ ImproveMissing
  \/ ImproveEmpty
  \/ ImproveLoad
  \/ ImproveSkip
  \/ ImproveQuote
  \/ ImproveSave

SpecImprove == InitImprove /\ [][NextImprove]_vars

\* either of the two operations on a quotes file is called
InitQuoteFiles == InitRefine \/ InitImprove

NextQuoteFiles == NextRefine \/ NextImprove

SpecQuoteFiles == InitQuoteFiles /\ [][NextQuoteFiles]_vars

(***************************************************************************)
(* Claims about the operations on a quotes file                            *)
(***************************************************************************)
\* the file holds a payload without a quote
HoldsNoQuotes(payload) ==
  /\ payload # Missing
  /\ \/ payload.kind = "dict" /\ Get(payload.value, "quotes", <<>>) = <<>>
     \/ payload.kind = "list" /\ payload.value = <<>>

\* the path the result goes to: the output path, and the input path when no
\* output path is given
C11_Target(args) == IF args.output = "" THEN args.input ELSE args.output

\* a call that stands at its start with the arguments args ends in this very
\* step, with ret_next as its outcome, as C11 says
C11_EndsAtOnce(at_start, args, ret_next, done_next) ==
  at_start =>
    /\ files[args.input] = Missing =>
         /\ done_next
         /\ ret_next = Raised("FileNotFoundError")
         /\ files' = files
    /\ HoldsNoQuotes(files[args.input]) =>
         /\ done_next
         /\ ret_next = Returned(C11_Target(args))
         /\ files'[C11_Target(args)].kind = "dict"
         /\ files'[C11_Target(args)].value.quotes = <<>>
         /\ \A p \in Paths \ {C11_Target(args)} : files'[p] = files[p]
         /\ UNCHANGED <<validatorVars, extractVars>>

\* C11: refine_quotes and improve_existing_quotes raise FileNotFoundError and
\* write nothing when the input file does not exist; when it exists and holds
\* no quotes they write a payload with an empty quote list to the output path
\* (the input path when no output path is given) and return that path in the
\* same step, without a step of an LLM, of the extractor or of the validator
C11_MissingOrEmptyInput ==
  [][/\ C11_EndsAtOnce(rq_pc = "start", rq_args, rq_ret', rq_pc' = "done")
     /\ C11_EndsAtOnce(im_pc = "start", im_args, im_ret', im_pc' = "done")]_vars

\* improve_existing_quotes was called without an output path on a file that
\* holds a dict without quotes, and the file now holds an empty quote list
C11_Witness ==
  /\ im_pc = "done"
  /\ im_args.output = ""
  /\ im_ret = Returned("in.json")
  /\ files["in.json"] = DictPayload([book |-> "", quotes |-> <<>>])

(***************************************************************************)
(* Claims about improve_existing_quotes                                    *)
(***************************************************************************)
\* the analyses among found that are GOOD or EXCELLENT with a confidence
\* above 0.6
C19_Qualifying(found) ==
  {j \in 1..Len(found) :
     /\ found[j].quality \in {"good", "excellent"}
     /\ found[j].confidence > 600}

\* the record rec is what C19 says of the input record given whose original
\* has the analyses found
C19_RecordFor(rec, given, found) ==
  IF C19_Qualifying(found) # {}
  THEN /\ rec.meta.improved = TRUE
       /\ \E j \in C19_Qualifying(found) :
            /\ \A k \in C19_Qualifying(found) :
                 found[j].confidence >= found[k].confidence
            /\ rec.quote = found[j].text
            /\ rec.translated = found[j].text
  ELSE /\ rec.meta.improved = FALSE
       /\ rec.quote = given.quote

\* a turn of the loop appends one record for a quote with an original and a
\* quote, and nothing for another
C19_OneRecordEach ==
  (im_pc = "loop" /\ im_n' = im_n + 1) =>
    IF Get(im_quotes[im_n], "original", <<>>) # <<>>
         /\ Get(im_quotes[im_n], "quote", <<>>) # <<>>
    THEN /\ Len(improved_quotes') = Len(improved_quotes) + 1
         /\ SubSeq(improved_quotes', 1, Len(improved_quotes)) = improved_quotes
         /\ C19_RecordFor(Last(improved_quotes'), im_quotes[im_n], im_analyses')
    ELSE improved_quotes' = improved_quotes

\* what improve_existing_quotes wrote
ImprovedSaved == files[OutPath(im_args)].value.quotes

\* the saved list is improved_quotes without the records whose stripped
\* quote an earlier record has
C19_SavedIsDeduplicated ==
  (im_pc = "done" /\ im_ret = Returned(OutPath(im_args))) =>
    /\ \A j, m \in 1..Len(ImprovedSaved) :
         j # m => Strip(ImprovedSaved[j].quote) # Strip(ImprovedSaved[m].quote)
    /\ \E at \in [1..Len(ImprovedSaved) -> 1..Len(improved_quotes)] :
         /\ \A j \in 1..Len(ImprovedSaved) :
              /\ ImprovedSaved[j] = improved_quotes[at[j]]
              /\ \A m \in 1..(at[j] - 1) :
                   Strip(improved_quotes[m].quote)
                     # Strip(improved_quotes[at[j]].quote)
         /\ \A j, m \in 1..Len(ImprovedSaved) : j < m => at[j] < at[m]
    /\ \A m \in 1..Len(improved_quotes) :
         \E j \in 1..Len(ImprovedSaved) :
            Strip(ImprovedSaved[j].quote) = Strip(improved_quotes[m].quote)

Str(text) == [str |-> text]

\* a JSON object, a JSON array and the JSON null
JsonDict(items) == [type |-> "dict", items |-> items]

JsonList(elements) == [type |-> "list", elements |-> elements]

JsonNull == [type |-> "null"]

\* the bodies graph.threads.net may answer with: no text, a text that is not
\* JSON, and JSON documents with and without an id
ThreadsBodies ==
  {[kind |-> "empty"], [kind |-> "not_json"]}
    \cup {[kind |-> "json", value |-> v] :
            v \in {JsonNull, JsonList(<<>>), JsonList(<<"id">>),
                   JsonDict([id |-> "c1"]), JsonDict([id |-> "c2"]),
                   JsonDict([error |->
                     JsonDict([message |-> Str("Session has expired")])]),
                   JsonDict([error |->
                     JsonDict([message |-> Str("Invalid parameter")])]),
                   JsonDict([error |-> JsonDict([message |-> JsonNull])]),
                   JsonDict([error |-> Str("unauthorized")])}}

\* what requests.post may end with: a response, or an exception
ThreadsAnswers ==
  [status_code : {200, 400}, body : ThreadsBodies]
    \cup {Raised("Timeout"), Raised("ConnectionError")}

\* the captions of the insights that have the publish button
Captions == {Saying, OtherSaying, SayingPadded}

\* the function ends with a message and a value; the function goes on to
\* publish the container creation_id
Ends(value, msg) == [return |-> value, msg |-> msg]

Sends(creation_id) == [creation_id |-> creation_id]

IsRaised(outcome) == "raised" \in DOMAIN outcome

\* response.json()
JsonOf(response) ==
  IF response.body.kind = "json" THEN Returned(response.body.value)
  ELSE Raised("ValueError")

\* error_data = response.json() if response.text else {}
ErrorData(response) ==
  IF response.body.kind = "empty" THEN Returned(JsonDict(EmptyDict))
  ELSE JsonOf(response)

\* error_msg = error_data.get("error", {}).get("message", response.text[:200])
ErrorMsg(response) ==
  LET error_data == ErrorData(response)
  IN  IF IsRaised(error_data) THEN error_data
      ELSE IF error_data.value.type # "dict" THEN Raised("AttributeError")
      ELSE LET error == Get(error_data.value.items, "error",
                            JsonDict(EmptyDict))
           IN  IF "type" \notin DOMAIN error \/ error.type # "dict"
               THEN Raised("AttributeError")
               ELSE Returned(Get(error.items, "message", Str("text")))

\* "id" in data, and data["id"]
HasId(data) ==
  IF data.type = "dict" THEN Returned("id" \in DOMAIN data.items)
  ELSE IF data.type = "list"
       THEN Returned(\E j \in 1..Len(data.elements) : data.elements[j] = "id")
       ELSE Raised("TypeError")

IdOf(data) ==
  IF data.type = "dict" THEN Returned(data.items.id) ELSE Raised("TypeError")

\* what follows the answer to the request for a container
AfterContainer(response) ==
  IF response.status_code # 200
  THEN LET error_msg == ErrorMsg(response)
       IN  IF IsRaised(error_msg) THEN error_msg
           ELSE IF "str" \notin DOMAIN error_msg.value
                THEN Raised("AttributeError")
           ELSE IF error_msg.value = Str("Session has expired")
                THEN Ends(FALSE, "token_expired")
                ELSE Ends(FALSE, "container_error")
  ELSE LET container_data == JsonOf(response)
       IN  IF IsRaised(container_data) THEN container_data
           ELSE LET has_id == HasId(container_data.value)
                    container_id == IdOf(container_data.value)
                IN  IF IsRaised(has_id) THEN has_id
                    ELSE IF ~has_id.value THEN Ends(FALSE, "no_container_id")
                    ELSE IF IsRaised(container_id) THEN container_id
                    ELSE Sends(container_id.value)

\* what follows the answer to the request to publish the container
AfterPublish(response) ==
  IF response.status_code = 200
  THEN LET publish_data == JsonOf(response)
       IN  IF IsRaised(publish_data) THEN publish_data
           ELSE LET has_id == HasId(publish_data.value)
                    post_id == IdOf(publish_data.value)
                IN  IF IsRaised(has_id) THEN has_id
                    ELSE IF ~has_id.value THEN Ends(FALSE, "no_post_id")
                    ELSE IF IsRaised(post_id) THEN post_id
                    ELSE Ends(TRUE, "published")
  ELSE LET error_msg == ErrorMsg(response)
       IN  IF IsRaised(error_msg) THEN error_msg
           ELSE Ends(FALSE, "publish_error")

\* Handled that lets every exception but a timeout out of the function
Handled_TimeoutOnly(outcome) ==
  IF IsRaised(outcome) /\ outcome.raised = "Timeout"
  THEN Ends(FALSE, "timeout")
  ELSE outcome

\* the except clauses of publish_to_threads
Handled(outcome) ==
  IF ~IsRaised(outcome) THEN outcome
  ELSE IF outcome.raised = "Timeout" THEN Ends(FALSE, "timeout")
  ELSE Ends(FALSE, "exception")

InitThreads ==
  /\ pt_env \in [access_token : BOOLEAN, ig_user_id : BOOLEAN]
  /\ pt_caption \in Captions
  /\ pt_pc = "start"
  /\ pt_requests = <<>>
  /\ pt_responses = <<>>
  /\ pt_msg = "none"
  /\ pt_ret = Running
  /\ WorldIdle
  /\ ValidatorIdle
  /\ RefineIdle
  /\ ExtractIdle
  /\ HarvestIdle
  /\ DeepIdle
  /\ PublishIdle
  /\ ImproveIdle

\* the function ends as step says
ThreadsEnds(step) ==
  /\ pt_pc' = "done"
  /\ pt_msg' = IF IsRaised(step) THEN pt_msg ELSE step.msg
  /\ pt_ret' = IF IsRaised(step) THEN step ELSE Returned(step.return)

\* ACCESS_TOKEN or IG_USER_ID is missing
ThreadsNotConfigured ==
  /\ pt_pc = "start"
  /\ ~(pt_env.access_token /\ pt_env.ig_user_id)
  /\ ThreadsEnds(Ends(FALSE, "no_token"))
  /\ UNCHANGED <<pt_env, pt_caption, pt_requests, pt_responses>>
  /\ UNCHANGED outsideThreads

\* step 1: the request for a container is sent
CreateContainer ==
  /\ pt_pc = "start"
  /\ pt_env.access_token /\ pt_env.ig_user_id
  /\ pt_requests' = Append(pt_requests, [endpoint |-> "threads",
                                         media_type |-> "TEXT",
                                         text |-> pt_caption])
  /\ pt_pc' = "container"
  /\ pt_msg' = "creating"
  /\ UNCHANGED <<pt_env, pt_caption, pt_responses, pt_ret>>
  /\ UNCHANGED outsideThreads

\* the request for a container is answered; step 2: the request to publish
\* the container is sent
ContainerAnswered ==
  /\ pt_pc = "container"
  /\ \E answer \in ThreadsAnswers :
       /\ pt_responses' = Append(pt_responses, answer)
       /\ LET step == Handled(IF IsRaised(answer) THEN answer
                               ELSE AfterContainer(answer))
          IN  IF "creation_id" \in DOMAIN step
              THEN /\ pt_requests' =
                        Append(pt_requests,
                               [endpoint |-> "threads_publish",
                                creation_id |-> step.creation_id])
                   /\ pt_pc' = "publish"
                   /\ pt_msg' = "publishing"
                   /\ UNCHANGED pt_ret
              ELSE /\ ThreadsEnds(step)
                   /\ UNCHANGED pt_requests
  /\ UNCHANGED <<pt_env, pt_caption>>
  /\ UNCHANGED outsideThreads

\* the request to publish the container is answered
PublishAnswered ==
  /\ pt_pc = "publish"
  /\ \E answer \in ThreadsAnswers :
       /\ pt_responses' = Append(pt_responses, answer)
       /\ ThreadsEnds(Handled(IF IsRaised(answer) THEN answer
                               ELSE AfterPublish(answer)))
  /\ UNCHANGED <<pt_env, pt_caption, pt_requests>>
  /\ UNCHANGED outsideThreads

NextThreads ==
  \/ ThreadsNotConfigured
  \/ CreateContainer
  \/ ContainerAnswered
  \/ PublishAnswered

SpecThreads == InitThreads /\ [][NextThreads]_vars

(***************************************************************************)
(* Claims about publish_to_threads of app_gemini.py                        *)
(***************************************************************************)
\* answer is HTTP 200 with a JSON object that has an id
C21_Is200WithId(answer) ==
  /\ "status_code" \in DOMAIN answer
  /\ answer.status_code = 200
  /\ answer.body.kind = "json"
  /\ answer.body.value.type = "dict"
  /\ "id" \in DOMAIN answer.body.value.items

\* answer is an exception of requests.post, or a text that is not JSON
C21_IsException(answer) ==
  \/ "raised" \in DOMAIN answer
  \/ answer.body.kind = "not_json"

\* C21: publish_to_threads of the Gemini app sends no request when the
\* access token or the user id is missing; it sends the threads_publish
\* request only after the request for a container returned HTTP 200 with an
\* id, and with that id as creation_id; it returns True only when the publish
\* request also returned HTTP 200 with an id; it never raises and returns
\* False on a timeout or any other exception
C21_TwoStepProtocol ==
  /\ ~(pt_env.access_token /\ pt_env.ig_user_id) => pt_requests = <<>>
  /\ \A j \in 1..Len(pt_requests) :
       pt_requests[j].endpoint = "threads_publish" =>
         /\ j = 2
         /\ pt_requests[1].endpoint = "threads"
         /\ pt_responses # <<>>
         /\ C21_Is200WithId(pt_responses[1])
         /\ pt_requests[j].creation_id = pt_responses[1].body.value.items.id
  /\ pt_ret = Returned(TRUE) =>
       /\ Len(pt_requests) = 2
       /\ Len(pt_responses) = 2
       /\ C21_Is200WithId(pt_responses[2])
  /\ "raised" \notin DOMAIN pt_ret
  /\ (pt_pc = "done" /\ pt_responses # <<>>
        /\ C21_IsException(pt_responses[Len(pt_responses)]))
       => pt_ret = Returned(FALSE)

\* both requests were answered with HTTP 200 and an id, and the post was
\* published from the container c2
C21_Witness ==
  /\ pt_pc = "done"
  /\ pt_ret = Returned(TRUE)
  /\ pt_requests[2].creation_id = "c2"
  /\ pt_msg = "published"

====
